---- MODULE Spec2Model ----
(***************************************************************************)
(* A model of the DOJ file puller: the backoff retrier (retry_helper.py),  *)
(* the verification oracle, the gate-clearing probes and the verification  *)
(* controller (headed_interaction_util.py / headless_interaction_util.py)  *)
(* and the headless file fetchers (doj_file_helper.py, verify.py).         *)
(*                                                                         *)
(* Each component has its own specification over the shared variables:     *)
(*   SpecRetry   retry_with_backoff                                        *)
(*   SpecVerify  ensure_page_verified                                      *)
(*   SpecFetch   pull_doj_file_headless (both variants)                    *)
(*   SpecWalk    navigate_to_next_page                                     *)
(*   SpecCrawl   pull_doj_dataset_headless                                 *)
(*   SpecGet     _try_get_request on its own                               *)
(*   SpecLog     _log_debug, save_snapshot, _append_dead_letter            *)
(*   SpecOracle  _is_verified                                              *)
(*   SpecProbe   click_verification_controls                               *)
(* The browser, the server and the callbacks are the environment: every    *)
(* answer they give is drawn from a small set in the action that asks.     *)
(***************************************************************************)
EXTENDS Integers, Sequences, FiniteSets, TLC

VARIABLES
    \* ---- retry_with_backoff (retry_helper.py)
    r_pc,        \* "attempt" | "sleep" | "recover" | "returned" | "raised" | "idle"
    r_max,       \* max_retries
    r_base,      \* backoff_factor
    r_attempt,   \* the loop variable attempt
    r_last,      \* last_exception
    r_out,       \* what the call returned or raised
    r_trace,     \* the calls made so far: func, time.sleep, recovery_fun
    \* ---- ensure_page_verified (headed_/headless_interaction_util.py)
    v_pc,        \* "entry" | "pattern" | "robot" | "age" | "recheck" | "pause" | "done" | "idle"
    v_max,       \* max_attempts
    v_attempt,   \* the loop variable attempt
    v_ret,       \* the value returned: "none" | "True" | "False" | "raised"
    v_oracle,    \* the results of the calls of _is_verified so far
    v_entry,     \* what the entry check read: the cookie, and the other signals' verdict
    v_calls,     \* how often each probe / hook was invoked, and the clicks made
    v_pauses,    \* the time.sleep calls made, in seconds
    v_faults,    \* did some page operation fail during this call
    \* ---- pull_doj_file_headless (doj_file_helper.py, verify.py)
    f_pc,        \* "goto" | "early" | "verify" | "pattern" | "age" | "pdf" | "nav" | "done" | "idle"
    f_variant,   \* "helper" (doj_file_helper.py) | "verify" (verify.py)
    f_non_interactive,  \* the parameter non_interactive
    f_retries,   \* the parameter retries
    f_attempt,   \* the loop variable attempt of the running _try_get_request
    f_pdf_url,   \* is pdf_url set (find_pdf_url found a PDF element)
    f_prompted,  \* was the manual-verification prompt shown
    f_gets,      \* the page.request.get calls made so far
    f_first,     \* the answer to the first page.request.get
    f_second,    \* the answer to the second page.request.get
    f_sleeps,    \* the time.sleep calls of _try_get_request, in seconds
    f_calls,     \* how often each probe and the controller were invoked
    f_pre,       \* f_calls as it stood at the first page.request.get
    f_result,    \* what the call returned
    \* ---- navigate_to_next_page (doj_dataset_next_page.py)
    n_pc,        \* "find" | "advance" | "verify" | "done" | "idle"
    n_page,      \* what the page held: the pagination-next element and the links
    n_link,      \* next_link: "none" | "cand" (the classed element) | "text" (a link by its text)
    n_href,      \* href as read from next_link: "unread" | "url" | "none" | "raise"
    n_navs,      \* the statuses answered to page.goto(full_next), in order
    n_clicks,    \* the next_link.click() calls made
    n_fallback,  \* the click fallback after a page.goto that raised:
                 \* "none" | "ok" | "raise" (the click or its idle wait raised)
    n_ctl,       \* the ensure_page_verified calls made
    n_ret,       \* the value returned: "none" | "True" | "False" | "None" | "raised"
    \* ---- pull_doj_dataset_headless (doj_dataset_helper.py)
    d_pc,        \* "open" | "page" | "item" | "next" | "done" | "raised" | "idle"
    d_config,    \* the call: dataset count, non_interactive, max_pages, per_page_limit
    d_idx,       \* the dataset of dataset_paths being crawled (1-based)
    d_session,   \* per dataset: "none" | "open" | "closed" (browser.close()) | "stopped" (the with block was left)
    d_page_number,  \* page_number
    d_items,     \* how many anchors of the current page are still to visit
    d_count,     \* count
    d_exit,      \* per dataset: how its crawl ended ("none": it has not)
    d_log,       \* what the crawl did: the File Fetcher calls it made (for which
                 \* dataset, through which dataset's session),
                 \* how many of them for the page whose items are being visited,
                 \* dead-letter records appended, the outcome of the last item,
                 \* was some fetched item new on disk
    \* ---- _log_debug, save_snapshot, _append_dead_letter (headed_interaction_util.py)
    l_dead,      \* the lines of dead_letter.txt
    l_log,       \* how many lines verbose_log.txt holds
    l_clock,     \* the time time.strftime reads
    l_last,      \* the last helper call: which, did it write, did it return
    \* ---- _is_verified on its own
    o_pc,        \* "call" | "done" | "idle"
    o_sig,       \* what the page answers to the oracle's queries
    o_ret,       \* "none" | "True" | "False" | "raised"
    \* ---- click_verification_controls on its own
    p_pc,        \* "main" | "frames" | "done" | "idle"
    p_main,      \* the candidates of the main document
    p_scan,      \* what the scan of the main document gave
    p_out,       \* what the probe returned and did
    \* ---- _try_get_request on its own
    g_pc,        \* "get" | "sleep" | "returned" | "raised" | "idle"
    g_variant,   \* "helper" (doj_file_helper.py) | "verify" (verify.py)
    g_url,       \* the url asked for
    g_retries,   \* retries
    g_attempt,   \* attempt
    g_trace,     \* the GETs issued and the sleeps made, in order
    g_out        \* what the call returned or raised

r_vars == <<r_pc, r_max, r_base, r_attempt, r_last, r_out, r_trace>>
v_vars == <<v_pc, v_max, v_attempt, v_ret, v_oracle, v_entry, v_calls,
            v_pauses, v_faults>>

f_vars == <<f_pc, f_variant, f_non_interactive, f_retries, f_attempt,
            f_pdf_url, f_prompted, f_gets, f_first, f_second, f_sleeps,
            f_calls, f_pre, f_result>>

n_vars == <<n_pc, n_page, n_link, n_href, n_navs, n_clicks, n_fallback, n_ctl,
            n_ret>>
d_vars == <<d_pc, d_config, d_idx, d_session, d_page_number, d_items, d_count,
            d_exit, d_log>>

l_vars == <<l_dead, l_log, l_clock, l_last>>
o_vars == <<o_pc, o_sig, o_ret>>
p_vars == <<p_pc, p_main, p_scan, p_out>>
g_vars == <<g_pc, g_variant, g_url, g_retries, g_attempt, g_trace, g_out>>

vars == <<r_vars, v_vars, f_vars, n_vars, d_vars, l_vars, o_vars, p_vars,
          g_vars>>

\* ------------------------------------------------------------------ bounds
MaxRetriesBound == 3     \* max_retries is drawn from 0..MaxRetriesBound
MaxBackoff == 2          \* backoff_factor is drawn from 1..MaxBackoff
MaxAttemptsBound == 3    \* max_attempts is drawn from 0..MaxAttemptsBound
MaxCands == 2            \* candidate controls in the main document
MaxFrames == 1           \* nested frames of a page
MaxFrameCands == 1       \* candidate controls in one nested frame
MaxFetchRetries == 2     \* retries is drawn from 0..MaxFetchRetries
MaxLinks == 2            \* links on a catalog page
MaxDatasets == 2         \* entries of dataset_paths
MaxItems == 2            \* item links on one catalog page
MaxCatalogPages == 2     \* pages of one dataset's catalog

\* ------------------------------------------------------------ small helpers
RECURSIVE Pow2(_)
Pow2(n) == IF n <= 0 THEN 1 ELSE 2 * Pow2(n - 1)

\* Python objects that travel through the model are records of one shape.
Obj(src, k, kind) == [src |-> src, k |-> k, kind |-> kind]
None == Obj("None", 0, "None")

\* =====================================================================
\* The verification oracle: ensure_page_verified._is_verified
\* =====================================================================
\* What the page answers to the oracle's five queries.
\*   cookie : page.evaluate("() => document.cookie")
\*   success: #ageSuccess and its computed display
\*   robot  : the bot-challenge selector (the code does not look at display)
\*   block  : #age-verify-block and its computed display
\*   list   : .item-list, .views-field, .item-list ul
CookieReads == {"marker", "other", "raise"}
SuccessReads == {"absent", "visible", "hidden", "raise"}
RobotReads == {"absent", "visible", "hidden", "raise"}
BlockReads == {"absent", "hidden", "shown", "query_raises", "display_raises"}
ListReads == {"present", "absent", "raise"}

Signals == [cookie : CookieReads, success : SuccessReads, robot : RobotReads,
            block : BlockReads, list : ListReads]

\* A mutant of the oracle: the challenge element is looked at before the cookie.
is_verified_robot_first(sig) ==
    IF sig.robot \in {"visible", "hidden"} THEN FALSE
    ELSE IF sig.cookie = "marker" THEN TRUE
    ELSE IF sig.success = "visible" THEN TRUE
    ELSE IF sig.block = "absent" THEN sig.list = "present"
    ELSE sig.block = "hidden"

\* try: <check> / except Exception: pass -- a check that raises gives no
\* signal.
swallow_unguarded(r) == r
swallow(r) == IF r = "raise" THEN "none" ELSE r

\* The four try blocks of _is_verified(): "True" / "False": the block
\* returns that value; "none": control goes on to the next block.
\* lines 275-281
check_cookie(sig) ==
    swallow(CASE sig.cookie = "marker" -> "True"
              [] sig.cookie = "raise" -> "raise"
              [] OTHER -> "none")

\* lines 282-290
check_success(sig) ==
    swallow(CASE sig.success = "visible" -> "True"
              [] sig.success = "raise" -> "raise"
              [] OTHER -> "none")

\* lines 291-297: if robot_btn: return False (its display is not read)
check_robot(sig) ==
    swallow(CASE sig.robot \in {"visible", "hidden"} -> "False"
              [] sig.robot = "raise" -> "raise"
              [] OTHER -> "none")

\* lines 298-313
check_block_list_blind(sig) ==
    swallow(CASE sig.block = "absent" -> "True"
              [] sig.block = "hidden" -> "True"
              [] sig.block \in {"query_raises", "display_raises"} -> "raise"
              [] OTHER -> "none")
check_block(sig) ==
    swallow(CASE sig.block = "absent" /\ sig.list = "present" -> "True"
              [] sig.block = "absent" /\ sig.list = "raise" -> "raise"
              [] sig.block = "absent" -> "False"
              [] sig.block = "hidden" -> "True"
              [] sig.block \in {"query_raises", "display_raises"} -> "raise"
              [] OTHER -> "none")

\* The first block that returns decides; line 314: return False. "raised":
\* an exception left _is_verified.
oracle_result(sig) ==
    LET first(rs) == IF \E i \in 1..Len(rs) : rs[i] # "none"
                     THEN rs[CHOOSE i \in 1..Len(rs) :
                                /\ rs[i] # "none"
                                /\ \A j \in 1..(i - 1) : rs[j] = "none"]
                     ELSE "False"
        r == first(<<check_cookie(sig), check_success(sig), check_robot(sig),
                     check_block(sig)>>)
    IN IF r = "raise" THEN "raised" ELSE r

\* _is_verified()
is_verified(sig) == oracle_result(sig) = "True"

\* Did one of the oracle's page operations raise.
oracle_fault(sig) ==
    \/ sig.cookie = "raise"
    \/ sig.cookie # "marker" /\ sig.success = "raise"
    \/ sig.cookie # "marker" /\ sig.success # "visible" /\ sig.robot = "raise"

\* =====================================================================
\* The pattern-match probe: click_verification_controls
\* =====================================================================
\* A candidate control, as _check_and_click meets it:
\*   match: pattern.search(text + attributes)
\*   type : el.get_attribute('type')        ("raise": the read fails)
\*   check: el.check()      click: el.click()
\*   wait : frame.wait_for_load_state('networkidle')
\*   snap : the write of the bot_click snapshot
Cand(match, type, check, click, wait, snap) ==
    [match |-> match, type |-> type, check |-> check, click |-> click,
     wait |-> wait, snap |-> snap]

CandKinds ==
    { Cand(FALSE, "button", "ok", "ok", "ok", "ok"),          \* no keyword
      Cand(TRUE, "button", "ok", "ok", "ok", "ok"),           \* clicked
      Cand(TRUE, "button", "ok", "raise", "ok", "ok"),        \* click fails
      Cand(TRUE, "button", "ok", "ok", "raise", "ok"),        \* idle wait fails
      Cand(TRUE, "checkbox", "raise", "ok", "ok", "ok"),      \* check fails, click works
      Cand(TRUE, "checkbox", "raise", "raise", "ok", "ok"),   \* both fail
      Cand(TRUE, "raise", "ok", "ok", "ok", "ok"),            \* type read fails
      Cand(TRUE, "button", "ok", "ok", "ok", "raise") }       \* snapshot write fails

SeqsUpTo(S, n) == UNION {[1..k -> S] : k \in 0..n}

\* _check_and_click(el, frame): [ret, clicked, fault]. snap_guarded says
\* whether the snapshot is written by save_snapshot (which swallows a failed
\* write) or by an open() inside the try block (verify.py). fault: one of the
\* operations on the element raised.
check_and_click(el, snap_guarded) ==
    IF ~el.match THEN [ret |-> FALSE, clicked |-> 0, fault |-> FALSE]
    ELSE IF el.type = "raise" THEN [ret |-> FALSE, clicked |-> 0, fault |-> TRUE]
    ELSE LET did == IF el.type = "checkbox"
                    THEN el.check = "ok" \/ el.click = "ok"
                    ELSE el.click = "ok"
             cf == IF el.type = "checkbox" THEN el.check = "raise"
                   ELSE el.click = "raise"
         IN IF ~did THEN [ret |-> FALSE, clicked |-> 0, fault |-> TRUE]
            ELSE IF el.wait = "raise"
                 THEN [ret |-> FALSE, clicked |-> 1, fault |-> TRUE]
            ELSE IF el.snap = "raise" /\ ~snap_guarded
                 THEN [ret |-> FALSE, clicked |-> 1, fault |-> TRUE]
            ELSE [ret |-> TRUE, clicked |-> 1,
                  fault |-> cf \/ el.snap = "raise"]

\* for el in candidates: if _check_and_click(el, frame): return True
RECURSIVE scan_cands(_, _, _, _)
scan_cands(cands, i, acc, snap_guarded) ==
    IF i > Len(cands) THEN [ret |-> FALSE, clicks |-> acc.clicks, fault |-> acc.fault]
    ELSE LET r == check_and_click(cands[i], snap_guarded)
             nxt == [clicks |-> acc.clicks + r.clicked, fault |-> acc.fault \/ r.fault]
         IN IF r.ret THEN [ret |-> TRUE, clicks |-> nxt.clicks, fault |-> nxt.fault]
            ELSE scan_cands(cands, i + 1, nxt, snap_guarded)

\* for f in frames: try: scan f / except: log
RECURSIVE scan_frames(_, _, _, _)
scan_frames(frames, i, acc, snap_guarded) ==
    IF i > Len(frames) THEN [ret |-> FALSE, clicks |-> acc.clicks, fault |-> acc.fault]
    ELSE IF ~frames[i].ok
         THEN scan_frames(frames, i + 1, [acc EXCEPT !.fault = TRUE], snap_guarded)
    ELSE LET r == scan_cands(frames[i].cands, 1, acc, snap_guarded)
         IN IF r.ret THEN r
            ELSE scan_frames(frames, i + 1,
                             [clicks |-> r.clicks, fault |-> r.fault], snap_guarded)

\* What the page holds for one run of the probe. ok = FALSE: the query
\* (query_selector_all, page_obj.frames) raises.
MainDocs == {[ok |-> FALSE, cands |-> <<>>]}
            \cup {[ok |-> TRUE, cands |-> c] : c \in SeqsUpTo(CandKinds, MaxCands)}
FrameDocs == {[ok |-> FALSE, cands |-> <<>>]}
             \cup {[ok |-> TRUE, cands |-> c] : c \in SeqsUpTo(CandKinds, MaxFrameCands)}
FrameLists == {[ok |-> FALSE, list |-> <<>>]}
              \cup {[ok |-> TRUE, list |-> l] : l \in SeqsUpTo(FrameDocs, MaxFrames)}

\* The main-document scan of click_verification_controls (lines 181-189).
cvc_main(main, snap_guarded) ==
    IF main.ok
    THEN scan_cands(main.cands, 1, [clicks |-> 0, fault |-> FALSE], snap_guarded)
    ELSE [ret |-> FALSE, clicks |-> 0, fault |-> TRUE]

\* The rest of click_verification_controls, given what the main scan gave
\* (lines 186-187 and 191-208): [ret, clicks, fault, framed]; framed: the
\* nested frames were asked for.
cvc_rest(m, frames, snap_guarded) ==
    IF m.ret
    THEN [ret |-> TRUE, clicks |-> m.clicks, fault |-> m.fault, framed |-> FALSE]
    ELSE IF ~frames.ok
         THEN [ret |-> FALSE, clicks |-> m.clicks, fault |-> TRUE, framed |-> TRUE]
    ELSE LET f == scan_frames(frames.list, 1,
                              [clicks |-> m.clicks, fault |-> m.fault], snap_guarded)
         IN [ret |-> f.ret, clicks |-> f.clicks, fault |-> f.fault, framed |-> TRUE]

\* click_verification_controls(page_obj, ...). The probe itself never
\* raises: each scan sits in its own try block.
click_verification_controls(main, frames, snap_guarded) ==
    cvc_rest(cvc_main(main, snap_guarded), frames, snap_guarded)

\* Every summary the probe can give (interaction-util variant): the main
\* scans first, then each of them continued over every frame list.
MainScans == {cvc_main(m, TRUE) : m \in MainDocs}
PatternOutcomes == {cvc_rest(m, f, TRUE) : m \in MainScans, f \in FrameLists}

\* =====================================================================
\* The explicit age-button probe: click_age_buttons
\* =====================================================================
\* What clicking one button does: btn.click(), the scripted click that
\* follows a failed native click, and the network-idle wait after it.
\*   "clicked"     : native click and wait succeed
\*   "js_clicked"  : native click raises, page.evaluate click and wait succeed
\*   "click_raises": native and scripted click both raise
\*   "wait_raises" : the click succeeds, the wait raises
ActKinds == {"clicked", "js_clicked", "click_raises", "wait_raises"}

\* try: b.click() / except: evaluate(click); wait; return True
\* [ret, clicked, fault]; ret = FALSE: an exception left the block.
age_click(act) ==
    [ret |-> act \in {"clicked", "js_clicked"},
     clicked |-> IF act = "click_raises" THEN 0 ELSE 1,
     fault |-> act # "clicked"]

\* A button of .age-gate-buttons: "no" (its text is not a yes) or what
\* clicking it does. The first yes button decides the block.
RECURSIVE first_yes(_, _)
first_yes(btns, i) ==
    IF i > Len(btns) THEN "no"
    ELSE IF btns[i] # "no" THEN btns[i]
    ELSE first_yes(btns, i + 1)

\* for f in page_obj.frames: try: ... return True / except: pass
RECURSIVE age_frames(_, _, _)
age_frames(frames, i, acc) ==
    IF i > Len(frames) THEN [ret |-> FALSE, clicks |-> acc.clicks, fault |-> acc.fault]
    ELSE IF frames[i] = "absent" THEN age_frames(frames, i + 1, acc)
    ELSE IF frames[i] = "raise"
         THEN age_frames(frames, i + 1, [acc EXCEPT !.fault = TRUE])
    ELSE LET r == age_click(frames[i])
             nxt == [clicks |-> acc.clicks + r.clicked, fault |-> acc.fault \/ r.fault]
         IN IF r.ret THEN [ret |-> TRUE, clicks |-> nxt.clicks, fault |-> nxt.fault]
            ELSE age_frames(frames, i + 1, nxt)

AgeButtons == {"absent", "raise"} \cup ActKinds
AgeGroups == {[ok |-> FALSE, btns |-> <<>>]}
             \cup {[ok |-> TRUE, btns |-> b] : b \in SeqsUpTo({"no"} \cup ActKinds, MaxCands)}
AgeFrameLists == {[ok |-> FALSE, list |-> <<>>]}
                 \cup {[ok |-> TRUE, list |-> l] : l \in SeqsUpTo(AgeButtons, MaxFrames)}

\* click_age_buttons(page_obj, ...): [ret, clicks, fault]
click_age_buttons(btn, group, frames) ==
    LET b1 == IF btn = "absent" THEN [ret |-> FALSE, clicked |-> 0, fault |-> FALSE]
              ELSE IF btn = "raise" THEN [ret |-> FALSE, clicked |-> 0, fault |-> TRUE]
              ELSE age_click(btn)
        y == first_yes(group.btns, 1)
        b2 == IF ~group.ok THEN [ret |-> FALSE, clicked |-> 0, fault |-> TRUE]
              ELSE IF y = "no" THEN [ret |-> FALSE, clicked |-> 0, fault |-> FALSE]
              ELSE age_click(y)
        acc2 == [clicks |-> b1.clicked + b2.clicked,
                 fault |-> b1.fault \/ b2.fault]
    IN IF b1.ret THEN [ret |-> TRUE, clicks |-> b1.clicked, fault |-> b1.fault]
       ELSE IF b2.ret THEN [ret |-> TRUE, clicks |-> acc2.clicks, fault |-> acc2.fault]
       ELSE IF ~frames.ok THEN [ret |-> FALSE, clicks |-> acc2.clicks, fault |-> TRUE]
       ELSE age_frames(frames.list, 1, acc2)

AgeOutcomes ==
    {click_age_buttons(b, g, f) : b \in AgeButtons, g \in AgeGroups, f \in AgeFrameLists}

\* =====================================================================
\* The verification controller: ensure_page_verified
\* =====================================================================
\* save_snapshot(page, ...): the write sits in try/except, the path is
\* returned whatever happens. "ok" | "raise": does the call raise.
save_snapshot_unguarded(write) == write
save_snapshot(write) == "ok"

\* try: page.wait_for_load_state('networkidle') / except: pass
guarded_wait_unguarded(wait) == wait
guarded_wait(wait) == "ok"

\* for attempt in range(1, max_attempts + 1): is there a round numbered k?
ctl_in_range_off_by_one(k, max_attempts) == k <= max_attempts + 1
ctl_in_range(k, max_attempts) == k <= max_attempts

\* time.sleep(1 * attempt)
ctl_pause(attempt) == 1 * attempt

\* The robot-button / reauth block of a round (lines 326-352).
\*   robot : "absent" | "raise" (the query raises) | "clicked" | "js_clicked"
\*           | "click_raises" (native and scripted click raise)
\*   reauth: what the evaluate of the reauth script gives:
\*           "false" | "true" | "error" | "raise"
\* [reauth: was the hook script evaluated, fault]. Every statement of the
\* block lies inside its outer try, so nothing raised here leaves the block.
RobotReads2 == {"absent", "raise", "clicked", "js_clicked", "click_raises"}
ReauthReads == {"false", "true", "error", "raise"}
robot_reauth(robot, reauth, snap, wait) ==
    IF robot \in {"raise", "click_raises"}
    THEN [reauth |-> 0, fault |-> TRUE]          \* outer except, line 351
    ELSE [reauth |-> 1,
          fault |-> \/ robot = "js_clicked"
                    \/ reauth = "raise"
                    \/ /\ (robot # "absent" \/ reauth \in {"true", "error"})
                       /\ (snap = "raise" \/ wait = "raise")]

NoCalls == [pattern |-> 0, age |-> 0, reauth |-> 0]
NoEntry == [cookie |-> "unread", rest |-> FALSE]

V_Frame == UNCHANGED <<r_vars, f_vars, n_vars, d_vars, l_vars, o_vars, p_vars, g_vars>>

V_Idle ==
    /\ v_pc = "idle" /\ v_max = 0 /\ v_attempt = 0 /\ v_ret = "none"
    /\ v_oracle = <<>> /\ v_entry = NoEntry /\ v_calls = NoCalls
    /\ v_pauses = <<>> /\ v_faults = FALSE

\* The call ensure_page_verified(page, ..., max_attempts = m).
V_Start(m) ==
    /\ v_pc = "entry" /\ v_max = m /\ v_attempt = 0 /\ v_ret = "none"
    /\ v_oracle = <<>> /\ v_entry = NoEntry /\ v_calls = NoCalls
    /\ v_pauses = <<>> /\ v_faults = FALSE

\* An exception leaves ensure_page_verified.
V_Raise ==
    /\ v_pc' = "done" /\ v_ret' = "raised"

\* lines 316-318 and the loop head of line 320.
V_Entry ==
    /\ v_pc = "entry"
    /\ \E sig \in Signals :
        /\ v_oracle' = <<is_verified(sig)>>
        /\ v_entry' = [cookie |-> sig.cookie,
                       rest |-> is_verified([sig EXCEPT !.cookie = "other"])]
        /\ v_faults' = oracle_fault(sig)
        /\ IF is_verified(sig)
           THEN v_pc' = "done" /\ v_ret' = "True" /\ v_attempt' = v_attempt
           ELSE IF ctl_in_range(1, v_max)
                THEN v_pc' = "pattern" /\ v_ret' = v_ret /\ v_attempt' = 1
                ELSE v_pc' = "done" /\ v_ret' = "False" /\ v_attempt' = v_attempt
    /\ UNCHANGED <<v_max, v_calls, v_pauses>>
    /\ V_Frame

\* lines 322-324: the pattern-match probe and its snapshot.
V_Pattern ==
    /\ v_pc = "pattern"
    /\ \E o \in PatternOutcomes, snap \in {"ok", "raise"} :
        /\ v_calls' = [v_calls EXCEPT !.pattern = @ + 1]
        /\ v_faults' = (v_faults \/ o.fault \/ (o.ret /\ snap = "raise"))
        /\ IF o.ret /\ save_snapshot(snap) = "raise"
           THEN V_Raise
           ELSE v_pc' = "robot" /\ v_ret' = v_ret
    /\ UNCHANGED <<v_max, v_attempt, v_oracle, v_entry, v_pauses>>
    /\ V_Frame

\* lines 326-352: the robot button and the reauth hook.
V_Robot ==
    /\ v_pc = "robot"
    /\ \E robot \in RobotReads2, reauth \in ReauthReads,
          snap \in {"ok", "raise"}, wait \in {"ok", "raise"} :
        LET r == robot_reauth(robot, reauth, snap, wait)
        IN /\ v_calls' = [v_calls EXCEPT !.reauth = @ + r.reauth]
           /\ v_faults' = (v_faults \/ r.fault)
           /\ v_pc' = "age" /\ v_ret' = v_ret
    /\ UNCHANGED <<v_max, v_attempt, v_oracle, v_entry, v_pauses>>
    /\ V_Frame

\* lines 354-356: the explicit age-button probe and its snapshot.
V_Age ==
    /\ v_pc = "age"
    /\ \E o \in AgeOutcomes, snap \in {"ok", "raise"} :
        /\ v_calls' = [v_calls EXCEPT !.age = @ + 1]
        /\ v_faults' = (v_faults \/ o.fault \/ (o.ret /\ snap = "raise"))
        /\ IF o.ret /\ save_snapshot(snap) = "raise"
           THEN V_Raise
           ELSE v_pc' = "recheck" /\ v_ret' = v_ret
    /\ UNCHANGED <<v_max, v_attempt, v_oracle, v_entry, v_pauses>>
    /\ V_Frame

\* lines 357-363: the guarded network-idle wait and the oracle again.
V_Recheck ==
    /\ v_pc = "recheck"
    /\ \E wait \in {"ok", "raise"}, sig \in Signals :
        /\ v_faults' = (v_faults \/ wait = "raise" \/ oracle_fault(sig))
        /\ IF guarded_wait(wait) = "raise"
           THEN V_Raise /\ v_oracle' = v_oracle
           ELSE /\ v_oracle' = Append(v_oracle, is_verified(sig))
                /\ IF is_verified(sig)
                   THEN v_pc' = "done" /\ v_ret' = "True"
                   ELSE v_pc' = "pause" /\ v_ret' = v_ret
    /\ UNCHANGED <<v_max, v_attempt, v_entry, v_calls, v_pauses>>
    /\ V_Frame

\* line 364, the loop head of line 320, and lines 365-366 after the loop.
V_Pause ==
    /\ v_pc = "pause"
    /\ v_pauses' = Append(v_pauses, ctl_pause(v_attempt))
    /\ IF ctl_in_range(v_attempt + 1, v_max)
       THEN v_pc' = "pattern" /\ v_ret' = v_ret /\ v_attempt' = v_attempt + 1
       ELSE v_pc' = "done" /\ v_ret' = "False" /\ v_attempt' = v_attempt
    /\ UNCHANGED <<v_max, v_oracle, v_entry, v_calls, v_faults>>
    /\ V_Frame

V_Next ==
    \/ V_Entry
    \/ V_Pattern
    \/ V_Robot
    \/ V_Age
    \/ V_Recheck
    \/ V_Pause


V_Done == v_pc = "done"
V_Rounds == v_calls.pattern

\* =====================================================================
\* retry_with_backoff
\* =====================================================================
\* What func() can do: return a value or raise one of two kinds of error.
OpValues == {"v1", "v2"}
OpErrorKinds == {"http404", "timeout"}

\* The exception object raised by attempt k of func.
OpError(k, kind) == Obj("func_error", k, kind)
\* The value returned by attempt k of func.
OpValue(k, v) == Obj("func_value", k, v)
\* The exception object raised by recovery_fun after attempt k.
RecError(k) == Obj("recovery_error", k, "recovery")
\* raise None (max_retries <= 0 leaves last_exception None): a TypeError.
TypeErrorNone == Obj("raise_None", 0, "TypeError")

Ev(ev, k, x) == [ev |-> ev, k |-> k, x |-> x]

\* for attempt in range(1, max_retries + 1): is there an attempt numbered k?
retry_in_range_off_by_one(k, max_retries) == k <= max_retries + 1
retry_in_range(k, max_retries) == k <= max_retries

\* sleep_time = backoff_factor * (2 ** (attempt - 1))
sleep_time_linear(backoff_factor, attempt) == backoff_factor * attempt
sleep_time(backoff_factor, attempt) == backoff_factor * Pow2(attempt - 1)

\* try: return func() / except: ... -- where control goes after func().
retry_after_func_finally(ok) == "sleep"
retry_after_func(ok) == IF ok THEN "returned" ELSE "sleep"

\* line 26: last_exception = e
last_exception_first(prev, e) == IF prev = None THEN e ELSE prev
last_exception(prev, e) == e

\* line 30: recovery_fun(e) stands outside any try of its own -- where
\* control goes after it: "loop" (next pass) or "raised" (out of the call).
retry_after_recovery_swallowed(ok) == "loop"
retry_after_recovery(ok) == IF ok THEN "loop" ELSE "raised"

\* The retrier touches nothing of the other components.
R_Frame == UNCHANGED <<v_vars, f_vars, n_vars, d_vars, l_vars, o_vars, p_vars, g_vars>>

R_Start ==
    /\ r_max \in 0..MaxRetriesBound
    /\ r_base \in 1..MaxBackoff
    /\ r_attempt = 1
    /\ r_last = None
    /\ r_out = [kind |-> "none", x |-> None]
    /\ r_trace = <<>>
    /\ r_pc = IF retry_in_range(1, r_max) THEN "attempt" ELSE "exhausted"

R_Idle ==
    /\ r_max = 0 /\ r_base = 1 /\ r_attempt = 1 /\ r_last = None
    /\ r_out = [kind |-> "none", x |-> None] /\ r_trace = <<>> /\ r_pc = "idle"

\* line 24: return func() -- the call returns a value.
R_FuncReturns ==
    /\ r_pc = "attempt"
    /\ \E v \in OpValues :
        /\ r_trace' = Append(r_trace, Ev("func", r_attempt, OpValue(r_attempt, v)))
        /\ r_pc' = retry_after_func(TRUE)
        /\ r_out' = IF retry_after_func(TRUE) = "returned"
                    THEN [kind |-> "returned", x |-> OpValue(r_attempt, v)] ELSE r_out
    /\ UNCHANGED <<r_max, r_base, r_attempt, r_last>>
    /\ R_Frame

\* lines 24-26: func() raises; last_exception = e.
R_FuncRaises ==
    /\ r_pc = "attempt"
    /\ \E kind \in OpErrorKinds :
        /\ r_trace' = Append(r_trace, Ev("func", r_attempt, OpError(r_attempt, kind)))
        /\ r_last' = last_exception(r_last, OpError(r_attempt, kind))
    /\ r_pc' = retry_after_func(FALSE)
    /\ UNCHANGED <<r_max, r_base, r_attempt, r_out>>
    /\ R_Frame

\* lines 27-29: sleep_time is computed, logged and slept.
R_Sleep ==
    /\ r_pc = "sleep"
    /\ r_trace' = Append(r_trace, Ev("sleep", r_attempt, Obj("seconds", sleep_time(r_base, r_attempt), "s")))
    /\ r_pc' = "recover"
    /\ UNCHANGED <<r_max, r_base, r_attempt, r_last, r_out>>
    /\ R_Frame

\* line 30: recovery_fun(e) returns; the loop goes to the next attempt.
R_RecoverReturns ==
    /\ r_pc = "recover"
    /\ r_trace' = Append(r_trace, Ev("recovery_fun", r_attempt, r_last))
    /\ r_attempt' = r_attempt + 1
    /\ r_pc' = IF retry_in_range(r_attempt + 1, r_max) THEN "attempt" ELSE "exhausted"
    /\ UNCHANGED <<r_max, r_base, r_last, r_out>>
    /\ R_Frame

\* line 30: recovery_fun(e) raises; nothing catches it.
R_RecoverRaises ==
    /\ r_pc = "recover"
    /\ r_trace' = r_trace \o <<Ev("recovery_fun", r_attempt, r_last),
                              Ev("recovery_raise", r_attempt, RecError(r_attempt))>>
    /\ IF retry_after_recovery(FALSE) = "raised"
       THEN /\ r_out' = [kind |-> "raised", x |-> RecError(r_attempt)]
            /\ r_pc' = "raised"
            /\ r_attempt' = r_attempt
       ELSE /\ r_out' = r_out
            /\ r_attempt' = r_attempt + 1
            /\ r_pc' = IF retry_in_range(r_attempt + 1, r_max)
                      THEN "attempt" ELSE "exhausted"
    /\ UNCHANGED <<r_max, r_base, r_last>>
    /\ R_Frame

\* line 31: raise last_exception.
R_Exhausted ==
    /\ r_pc = "exhausted"
    /\ r_out' = [kind |-> "raised",
                 x |-> IF r_last = None THEN TypeErrorNone ELSE r_last]
    /\ r_pc' = "raised"
    /\ UNCHANGED <<r_max, r_base, r_attempt, r_last, r_trace>>
    /\ R_Frame

R_Next ==
    \/ R_FuncReturns
    \/ R_FuncRaises
    \/ R_Sleep
    \/ R_RecoverReturns
    \/ R_RecoverRaises
    \/ R_Exhausted


\* ---- what the trace says
R_Done == r_pc \in {"returned", "raised"}
R_Events(ev) == {i \in 1..Len(r_trace) : r_trace[i].ev = ev}
R_FuncOk(i) == r_trace[i].ev = "func" /\ r_trace[i].x.src = "func_value"
R_FuncFailed(i) == r_trace[i].ev = "func" /\ r_trace[i].x.src = "func_error"
R_SleepSeconds(i) == r_trace[i].x.k
R_AllFailed == /\ r_max >= 1
               /\ Cardinality({i \in R_Events("func") : R_FuncFailed(i)}) = r_max

\* =====================================================================
\* The file fetcher: pull_doj_file_headless (doj_file_helper.py, verify.py)
\* =====================================================================
\* A content-type header is the sequence of its parts: the media type and
\* its parameters; <<>> is a response without the header (the code reads
\* headers.get('content-type') or '').
ContentTypes == {<<"application/pdf">>, <<"application/pdf", "charset=binary">>,
                 <<"video/mp4">>, <<"text/html">>, <<>>}

\* 'application/pdf' in ctype
ContainsPdf_exact(ctype) == ctype = <<"application/pdf">>
ContainsPdf(ctype) == \E i \in 1..Len(ctype) : ctype[i] = "application/pdf"

\* What page.request.get / page.goto can give: a response (body says whether
\* resp.body() can be read), an exception, or (goto only) None.
Resp(status, ctype, body) ==
    [kind |-> "resp", status |-> status, ctype |-> ctype, body |-> body]
Raised == [kind |-> "raise", status |-> 0, ctype |-> <<>>, body |-> "none"]
NavNone == [kind |-> "null", status |-> 0, ctype |-> <<>>, body |-> "none"]
NoGet == [kind |-> "none", status |-> 0, ctype |-> <<>>, body |-> "none"]

GetOutcomes ==
    {Resp(200, c, "ok") : c \in ContentTypes}
    \cup {Resp(200, <<"application/pdf">>, "raise")}
    \cup {Resp(st, <<"text/html">>, "ok") : st \in {404, 503}}
    \cup {Raised}
NavOutcomes == GetOutcomes \cup {NavNone}

\* status == 200 and 'application/pdf' in (headers.get('content-type') or '')
is_pdf_response(r) ==
    r.kind = "resp" /\ r.status = 200 /\ ContainsPdf(r.ctype)

\* if getattr(api_resp, 'status', None) == 200: -- the test of the pdf_url
\* fetch; the content-type is not looked at.
is_ok_response(r) == r.kind = "resp" /\ r.status = 200

\* range(1, max(1, retries) + 1): the number of attempts of _try_get_request
get_attempts(retries) == IF retries > 1 THEN retries ELSE 1

\* sleep_time = 1 * (2 ** (attempt - 1))
get_sleep_time(attempt) == 1 * Pow2(attempt - 1)

\* A loop that sleeps after every failed pass, the last one included.
try_get_pass_sleeps_last(variant, attempt, retries, o) ==
    IF o.kind = "resp"
    THEN IF variant = "helper" /\ o.status # 200 /\ attempt < retries
         THEN [next |-> "retry", sleep |-> get_sleep_time(attempt)]
         ELSE [next |-> "return", sleep |-> 0]
    ELSE [next |-> IF attempt + 1 <= get_attempts(retries) THEN "retry" ELSE "raise",
          sleep |-> get_sleep_time(attempt)]

\* One pass of the loop of _try_get_request, attempt numbered `attempt`,
\* page.request.get answering o. [next, sleep]:
\*   next : "return" (return resp) | "retry" (next pass) | "raise" (the loop
\*          is over, raise last_exc);  sleep: seconds slept, 0 for no sleep.
\* doj_file_helper.py sleeps and goes on after a non-200 response while
\* attempt < retries; verify.py returns any response.
try_get_pass(variant, attempt, retries, o) ==
    IF o.kind = "resp"
    THEN IF variant = "helper" /\ o.status # 200 /\ attempt < retries
         THEN [next |-> "retry", sleep |-> get_sleep_time(attempt)]
         ELSE [next |-> "return", sleep |-> 0]
    ELSE [next |-> IF attempt + 1 <= get_attempts(retries) THEN "retry" ELSE "raise",
          sleep |-> IF attempt < retries THEN get_sleep_time(attempt) ELSE 0]

\* The dict returned on success / None; closed: was the page (or browser)
\* closed before returning.
FetchResult(via, r) ==
    [kind |-> "FetchResult", via |-> via, ctype |-> r.ctype, closed |-> TRUE]
ReturnNone(via, closed) ==
    [kind |-> "None", via |-> via, ctype |-> <<>>, closed |-> closed]
\* except Exception as e: (write to error_log_playwright.txt, guarded);
\* return None -- the handler around the whole body (doj_file_helper.py
\* lines 395-401, verify.py lines 371-377). It closes nothing.
outer_except_reraises ==
    [kind |-> "raised", via |-> "error", ctype |-> <<>>, closed |-> FALSE]
outer_except == ReturnNone("error", FALSE)
Pending == [kind |-> "pending", via |-> "", ctype |-> <<>>, closed |-> FALSE]

NoFetchCalls == [pattern |-> 0, age |-> 0, controller |-> 0]

\* max_attempts: int = 3, the default ensure_page_verified is called with
CtlMaxAttempts == 3

\* What the two probes return to the fetcher.
PatternReturns == {o.ret : o \in PatternOutcomes}
AgeReturns == {o.ret : o \in AgeOutcomes}

\* The fetcher touches nothing of the retrier.
F_Frame == UNCHANGED <<r_vars, n_vars, d_vars, l_vars, o_vars, p_vars, g_vars>>

F_Idle ==
    /\ f_pc = "idle" /\ f_variant = "helper" /\ f_non_interactive = TRUE
    /\ f_retries = 0 /\ f_attempt = 0 /\ f_pdf_url = FALSE /\ f_prompted = FALSE
    /\ f_gets = 0 /\ f_first = NoGet /\ f_second = NoGet /\ f_sleeps = <<>>
    /\ f_calls = NoFetchCalls /\ f_pre = NoFetchCalls /\ f_result = Pending

\* The call pull_doj_file_headless(file_url, ..., non_interactive, retries),
\* with a live browser context.
F_Start ==
    /\ f_pc = "goto" /\ f_variant \in {"helper", "verify"}
    /\ f_non_interactive \in BOOLEAN
    /\ f_retries \in 0..MaxFetchRetries
    /\ f_attempt = 0 /\ f_pdf_url = FALSE /\ f_prompted = FALSE
    /\ f_gets = 0 /\ f_first = NoGet /\ f_second = NoGet /\ f_sleeps = <<>>
    /\ f_calls = NoFetchCalls /\ f_pre = NoFetchCalls /\ f_result = Pending

\* The call returns res.
F_Return(res) ==
    /\ f_pc' = "done" /\ f_result' = res

\* ensure_page_verified(page, ...) is entered / has returned.
V_Call(m) ==
    /\ v_pc' = "entry" /\ v_max' = m /\ v_attempt' = 0 /\ v_ret' = "none"
    /\ v_oracle' = <<>> /\ v_entry' = NoEntry /\ v_calls' = NoCalls
    /\ v_pauses' = <<>> /\ v_faults' = FALSE
V_Returned ==
    /\ v_pc' = "idle" /\ v_max' = 0 /\ v_attempt' = 0 /\ v_ret' = "none"
    /\ v_oracle' = <<>> /\ v_entry' = NoEntry /\ v_calls' = NoCalls
    /\ v_pauses' = <<>> /\ v_faults' = FALSE

\* page.request.get has answered o: the bookkeeping of the calls made.
F_NoteGet(o) ==
    /\ f_gets' = f_gets + 1
    /\ f_first' = IF f_gets = 0 THEN o ELSE f_first
    /\ f_second' = IF f_gets = 1 THEN o ELSE f_second
    /\ f_pre' = IF f_gets = 0 THEN f_calls ELSE f_pre

\* time.sleep(sleep_time) inside a pass of _try_get_request.
F_Slept(p) ==
    f_sleeps' = IF p.sleep > 0 THEN Append(f_sleeps, p.sleep) ELSE f_sleeps

\* doj_file_helper.py lines 90-136: page.goto, the PDF short-circuit, the
\* guarded idle wait and the initial snapshot.
F_GotoHelper ==
    /\ f_pc = "goto" /\ f_variant = "helper"
    /\ \E nav \in NavOutcomes :
        IF is_pdf_response(nav) /\ nav.body = "ok"
        THEN F_Return(FetchResult("goto", nav)) /\ f_attempt' = f_attempt
        ELSE f_pc' = "early" /\ f_attempt' = 1 /\ f_result' = f_result
    /\ UNCHANGED <<f_variant, f_non_interactive, f_retries, f_pdf_url, f_prompted,
                   f_gets, f_first, f_second, f_sleeps, f_calls, f_pre>>
    /\ UNCHANGED v_vars /\ F_Frame

\* verify.py lines 68-77: page.goto, the idle wait and the snapshot write,
\* none of them guarded: a failure ends the call in the outer except.
F_GotoVerify ==
    /\ f_pc = "goto" /\ f_variant = "verify"
    /\ \E ok \in BOOLEAN :
        IF ok THEN f_pc' = "pattern" /\ f_result' = f_result
        ELSE F_Return(outer_except)
    /\ UNCHANGED <<f_variant, f_non_interactive, f_retries, f_attempt, f_pdf_url,
                   f_prompted, f_gets, f_first, f_second, f_sleeps, f_calls, f_pre>>
    /\ UNCHANGED v_vars /\ F_Frame

\* A pass of _try_get_request after which the loop goes on.
F_GetRetry ==
    /\ f_pc \in {"early", "pdf", "nav"}
    /\ \E o \in GetOutcomes :
        LET p == try_get_pass(f_variant, f_attempt, f_retries, o)
        IN /\ p.next = "retry"
           /\ F_NoteGet(o)
           /\ F_Slept(p)
    /\ f_attempt' = f_attempt + 1
    /\ UNCHANGED <<f_pc, f_variant, f_non_interactive, f_retries, f_pdf_url,
                   f_prompted, f_calls, f_result>>
    /\ UNCHANGED v_vars /\ F_Frame

\* doj_file_helper.py lines 140-161: the last pass of the early fetch; a
\* readable 200 PDF is returned, anything else leads to ensure_page_verified.
F_EarlyDone ==
    /\ f_pc = "early"
    /\ \E o \in GetOutcomes :
        LET p == try_get_pass(f_variant, f_attempt, f_retries, o)
        IN /\ p.next # "retry"
           /\ F_NoteGet(o)
           /\ F_Slept(p)
           /\ IF p.next = "return" /\ is_pdf_response(o) /\ o.body = "ok"
              THEN F_Return(FetchResult("early", o)) /\ UNCHANGED v_vars
              ELSE f_pc' = "verify" /\ f_result' = f_result /\ V_Call(CtlMaxAttempts)
    /\ UNCHANGED <<f_variant, f_non_interactive, f_retries, f_attempt, f_pdf_url,
                   f_prompted, f_calls>>
    /\ F_Frame

\* doj_file_helper.py lines 161-203: ensure_page_verified has returned.
\* Not verified: non-interactive gives up; otherwise the user is asked once
\* and the controller is run again after a reload.
F_ControllerReturns ==
    /\ f_pc = "verify" /\ V_Done
    /\ f_calls' = [pattern |-> f_calls.pattern + v_calls.pattern,
                   age |-> f_calls.age + v_calls.age,
                   controller |-> f_calls.controller + 1]
    /\ IF v_ret # "False" \/ f_prompted
       THEN f_pc' = "pattern" /\ V_Returned /\ UNCHANGED <<f_prompted, f_result>>
       ELSE IF f_non_interactive
       THEN F_Return(ReturnNone("unverified", TRUE)) /\ V_Returned
            /\ f_prompted' = f_prompted
       ELSE \E answer \in {"enter", "skip", "raise"} :
               /\ f_prompted' = TRUE
               /\ IF answer = "skip"
                  THEN F_Return(ReturnNone("skip", TRUE)) /\ V_Returned
                  ELSE IF answer = "enter"
                  THEN V_Call(CtlMaxAttempts) /\ UNCHANGED <<f_pc, f_result>>
                  ELSE f_pc' = "pattern" /\ V_Returned /\ f_result' = f_result
    /\ UNCHANGED <<f_variant, f_non_interactive, f_retries, f_attempt, f_pdf_url,
                   f_gets, f_first, f_second, f_sleeps, f_pre>>
    /\ F_Frame

\* After click_verification_controls returned ret: is pdf_url looked up
\* again? (helper lines 211-216; verify.py lines 179-188, where the
\* snapshot write is not guarded.)
pattern_refind(variant, ret, wait, snap) ==
    ret /\ wait = "ok" /\ (variant = "helper" \/ snap = "ok")

\* doj_file_helper.py lines 205-224: find_pdf_url and the pattern-match probe.
F_PatternHelper ==
    /\ f_pc = "pattern" /\ f_variant = "helper"
    /\ \E found0 \in BOOLEAN, found1 \in BOOLEAN, ret \in PatternReturns,
          wait \in {"ok", "raise"} :
        f_pdf_url' = IF pattern_refind(f_variant, ret, wait, "ok")
                     THEN found1 ELSE found0
    /\ f_calls' = [f_calls EXCEPT !.pattern = @ + 1]
    /\ f_pc' = "age"
    /\ UNCHANGED <<f_variant, f_non_interactive, f_retries, f_attempt, f_prompted,
                   f_gets, f_first, f_second, f_sleeps, f_pre, f_result>>
    /\ UNCHANGED v_vars /\ F_Frame

\* verify.py lines 99-196: find_pdf_url (not guarded) and the probe.
F_PatternVerify ==
    /\ f_pc = "pattern" /\ f_variant = "verify"
    /\ \E find \in {"ok", "raise"}, found0 \in BOOLEAN, found1 \in BOOLEAN,
          ret \in PatternReturns, wait \in {"ok", "raise"}, snap \in {"ok", "raise"} :
        IF find = "raise"
        THEN F_Return(outer_except) /\ UNCHANGED <<f_pdf_url, f_calls>>
        ELSE /\ f_pdf_url' = IF pattern_refind(f_variant, ret, wait, snap)
                             THEN found1 ELSE found0
             /\ f_calls' = [f_calls EXCEPT !.pattern = @ + 1]
             /\ f_pc' = "age" /\ f_result' = f_result
    /\ UNCHANGED <<f_variant, f_non_interactive, f_retries, f_attempt, f_prompted,
                   f_gets, f_first, f_second, f_sleeps, f_pre>>
    /\ UNCHANGED v_vars /\ F_Frame

\* The except branch after click_age_buttons is taken when the idle wait
\* (in verify.py also the snapshot write) that follows a click raises.
age_fallback(variant, ret, wait, snap) ==
    ret /\ (wait = "raise" \/ (variant = "verify" /\ snap = "raise"))

\* How the age-button phase ends: "raise" (an exception reaches the outer
\* except), "skip" (the user typed skip) or "go" (on to the fetches).
\*   query : the unguarded page.query_selector_all of the except branch
\*   final : the final snapshot (guarded in doj_file_helper.py only)
\*   answer: input(), asked unless non_interactive (guarded in
\*           doj_file_helper.py only)
age_exit(variant, ret, wait, snap, query, final, answer, non_interactive) ==
    IF age_fallback(variant, ret, wait, snap) /\ query = "raise" THEN "raise"
    ELSE IF variant = "verify" /\ final = "raise" THEN "raise"
    ELSE IF non_interactive THEN "go"
    ELSE IF answer = "skip" THEN "skip"
    ELSE IF answer = "raise" /\ variant = "verify" THEN "raise"
    ELSE "go"

\* doj_file_helper.py lines 226-304 / verify.py lines 257-325: the
\* age-button probe, the fallback clicks, the final snapshot and the prompt.
F_Age ==
    /\ f_pc = "age"
    /\ \E ret \in AgeReturns, found \in BOOLEAN,
          wait \in {"ok", "raise"}, snap \in {"ok", "raise"},
          query \in {"ok", "raise"}, final \in {"ok", "raise"},
          answer \in {"enter", "skip", "raise"} :
        LET exit == age_exit(f_variant, ret, wait, snap, query, final, answer,
                             f_non_interactive)
            url == IF ret THEN found ELSE f_pdf_url
        IN /\ f_pdf_url' = url
           /\ IF exit = "raise"
              THEN F_Return(outer_except) /\ f_attempt' = f_attempt
              ELSE IF exit = "skip"
              THEN F_Return(ReturnNone("skip", TRUE)) /\ f_attempt' = f_attempt
              ELSE /\ f_pc' = IF url THEN "pdf" ELSE "nav"
                   /\ f_attempt' = 1 /\ f_result' = f_result
    /\ f_calls' = [f_calls EXCEPT !.age = @ + 1]
    /\ UNCHANGED <<f_variant, f_non_interactive, f_retries, f_prompted,
                   f_gets, f_first, f_second, f_sleeps, f_pre>>
    /\ UNCHANGED v_vars /\ F_Frame

\* doj_file_helper.py lines 306-340 / verify.py lines 327-346: the last
\* pass of the fetch of pdf_url; a readable 200 response is returned.
F_PdfDone ==
    /\ f_pc = "pdf"
    /\ \E o \in GetOutcomes :
        LET p == try_get_pass(f_variant, f_attempt, f_retries, o)
        IN /\ p.next # "retry"
           /\ F_NoteGet(o)
           /\ F_Slept(p)
           /\ IF p.next = "return" /\ is_ok_response(o) /\ o.body = "ok"
              THEN F_Return(FetchResult("pdf_url", o)) /\ f_attempt' = f_attempt
              ELSE f_pc' = "nav" /\ f_attempt' = 1 /\ f_result' = f_result
    /\ UNCHANGED <<f_variant, f_non_interactive, f_retries, f_pdf_url,
                   f_prompted, f_calls>>
    /\ UNCHANGED v_vars /\ F_Frame

\* doj_file_helper.py lines 342-393 / verify.py lines 348-369: the last
\* pass of the fetch of file_url; a readable 200 PDF is returned, anything
\* else ends the call with None.
F_NavDone ==
    /\ f_pc = "nav"
    /\ \E o \in GetOutcomes :
        LET p == try_get_pass(f_variant, f_attempt, f_retries, o)
        IN /\ p.next # "retry"
           /\ F_NoteGet(o)
           /\ F_Slept(p)
           /\ IF p.next = "return" /\ is_pdf_response(o) /\ o.body = "ok"
              THEN F_Return(FetchResult("nav", o))
              ELSE F_Return(ReturnNone("failed", TRUE))
    /\ UNCHANGED <<f_variant, f_non_interactive, f_retries, f_attempt, f_pdf_url,
                   f_prompted, f_calls>>
    /\ UNCHANGED v_vars /\ F_Frame

F_Next ==
    \/ F_GotoHelper
    \/ F_GotoVerify
    \/ F_GetRetry
    \/ F_EarlyDone
    \/ F_ControllerReturns
    \/ F_PatternHelper
    \/ F_PatternVerify
    \/ F_Age
    \/ F_PdfDone
    \/ F_NavDone

\* ---- what the bookkeeping says
F_Done == f_pc = "done"
F_Returned == F_Done /\ f_result.kind = "FetchResult"

\* =====================================================================
\* The pagination walker: navigate_to_next_page (doj_dataset_next_page.py)
\* =====================================================================
\* The text of a link as inner_text() gives it: a sequence of words, or a
\* read that raises (the code then takes txt = '').
LinkText(words) == [ok |-> TRUE, words |-> words]
LinkTextRaises == [ok |-> FALSE, words |-> <<>>]
LinkTexts == {LinkText(<<"Next">>), LinkText(<<"next", "page">>),
              LinkText(<<"Previous">>), LinkText(<<"the", "next">>),
              LinkTextRaises}

\* .lower() on a word
lower(w) == CASE w = "Next" -> "next"
              [] w = "Previous" -> "previous"
              [] OTHER -> w

\* txt.startswith('next') or 'next' == txt, on the stripped, lowered text
starts_with_next(t) == t.ok /\ Len(t.words) >= 1 /\ lower(t.words[1]) = "next"

\* What the page holds: the answer to query_selector of the classed
\* pagination-next element, and the answer to query_selector_all('a').
NextCandReads == {"found", "absent", "raise"}
LinkLists == {[ok |-> FALSE, list |-> <<>>]}
             \cup {[ok |-> TRUE, list |-> l] : l \in SeqsUpTo(LinkTexts, MaxLinks)}
NextPages == [cand : NextCandReads, links : LinkLists]

\* lines 20-38: next_link. "cand": the classed element; "text": the first
\* link whose text starts with next; "none": nothing found, or a query
\* raised.
find_next_link(pg) ==
    IF pg.cand = "raise" THEN "none"
    ELSE IF pg.cand = "found" THEN "cand"
    ELSE IF ~pg.links.ok THEN "none"
    ELSE IF \E i \in 1..Len(pg.links.list) : starts_with_next(pg.links.list[i])
         THEN "text"
    ELSE "none"

\* if resp and getattr(resp, 'status', None) in (401, 403, 451, 503)
BlockStatuses == {401, 403, 451, 503}
is_blocked(status) == status \in BlockStatuses

\* The statuses page.goto can answer with (0: goto returned None).
NavStatuses == {0, 200, 403, 503}

\* What falling off the end of a Python function returns.
fall_through == "None"

N_Frame == UNCHANGED <<r_vars, f_vars, d_vars, l_vars, o_vars, p_vars, g_vars>>

NoPage == [cand |-> "absent", links |-> [ok |-> TRUE, list |-> <<>>]]

N_Idle ==
    /\ n_pc = "idle" /\ n_page = NoPage /\ n_link = "none" /\ n_href = "unread"
    /\ n_navs = <<>> /\ n_clicks = 0 /\ n_fallback = "none" /\ n_ctl = 0
    /\ n_ret = "none"

\* The call navigate_to_next_page(page, page_number, ...).
N_Start ==
    /\ n_pc = "find" /\ n_page = NoPage /\ n_link = "none" /\ n_href = "unread"
    /\ n_navs = <<>> /\ n_clicks = 0 /\ n_fallback = "none" /\ n_ctl = 0
    /\ n_ret = "none"

N_Return(v) == n_pc' = "done" /\ n_ret' = v

\* lines 19-41: the snapshot, the search for next_link, and the fall off the
\* end of the function when there is none.
N_Find ==
    /\ n_pc = "find"
    /\ \E pg \in NextPages :
        /\ n_page' = pg
        /\ n_link' = find_next_link(pg)
        /\ IF find_next_link(pg) = "none"
           THEN N_Return(fall_through)
           ELSE n_pc' = "advance" /\ n_ret' = n_ret
    /\ UNCHANGED <<n_href, n_navs, n_clicks, n_fallback, n_ctl>>
    /\ UNCHANGED v_vars /\ N_Frame

\* The href attribute of next_link: a URL, nothing, or a read that raises.
HrefReads == {"url", "none", "raise"}

\* lines 43-48 and 132-134: reading href raises; the handler's own message
\* uses a name that is not bound, which the outer handler catches.
N_HrefFails ==
    /\ n_pc = "advance"
    /\ n_href' = "raise"
    /\ N_Return("False")
    /\ UNCHANGED <<n_page, n_link, n_navs, n_clicks, n_fallback, n_ctl>>
    /\ UNCHANGED v_vars /\ N_Frame

\* lines 54-73 (href set): page.goto(full_next); when it answers, whatever
\* the status, the function returns True right after logging it (line 61).
\* When it raises: the click fallback, then the end of the function.
\* -1 in n_navs: a page.goto that raised.
N_Direct ==
    /\ n_pc = "advance"
    /\ n_href' = "url"
    /\ \E nav \in NavStatuses \cup {-1}, click \in {"ok", "raise"},
          wait \in {"ok", "raise"} :
        /\ n_navs' = Append(n_navs, nav)
        /\ IF nav # -1
           THEN N_Return("True") /\ UNCHANGED <<n_clicks, n_fallback>>
           ELSE /\ N_Return(fall_through)
                /\ n_clicks' = n_clicks + 1
                /\ n_fallback' = IF click = "ok" /\ wait = "ok" THEN "ok" ELSE "raise"
    /\ UNCHANGED <<n_page, n_link, n_ctl>>
    /\ UNCHANGED v_vars /\ N_Frame

\* lines 74-92 (no href): click, idle wait, snapshot, page.content(); resp
\* is None here, so blocked stays False; ensure_page_verified is called
\* whatever blocked says.
N_Click ==
    /\ n_pc = "advance"
    /\ n_href' = "none"
    /\ n_clicks' = n_clicks + 1
    /\ \E click \in {"ok", "raise"}, wait \in {"ok", "raise"},
          content \in {"ok", "raise"} :
        IF click = "raise" \/ wait = "raise" \/ content = "raise"
        THEN N_Return("False") /\ UNCHANGED v_vars
        ELSE n_pc' = "verify" /\ n_ret' = n_ret /\ V_Call(CtlMaxAttempts)
    /\ UNCHANGED <<n_page, n_link, n_navs, n_fallback, n_ctl>>
    /\ N_Frame

\* lines 98-131: the retry after the controller. has_url: full_next is set.
\*   nav2   : what the second page.goto(full_next) answers (-1: it raises)
\*   denied2: the page content after it names an access-denied page
\*   reload, denied3: the page.reload() of the else branch and the content
\*   after it.
\* [ret, navs]: the value returned and the navigations made.
walker_retry(has_url, nav2, wait2, denied2, reload, denied3) ==
    IF ~has_url THEN [ret |-> "True", navs |-> <<>>]
    ELSE IF nav2 = -1 \/ wait2 = "raise" THEN [ret |-> "False", navs |-> <<nav2>>]
    ELSE IF denied2 \/ is_blocked(nav2) THEN [ret |-> "False", navs |-> <<nav2>>]
    ELSE IF reload = "raise" \/ denied3 THEN [ret |-> "False", navs |-> <<nav2>>]
    ELSE [ret |-> "True", navs |-> <<nav2>>]

\* lines 92-131: ensure_page_verified has returned; the retry; the return.
N_ControllerReturns ==
    /\ n_pc = "verify" /\ V_Done
    /\ n_ctl' = n_ctl + 1
    /\ \E nav2 \in NavStatuses \cup {-1}, wait2 \in {"ok", "raise"},
          denied2 \in BOOLEAN, reload \in {"ok", "raise"}, denied3 \in BOOLEAN :
        LET r == walker_retry(n_href = "url", nav2, wait2, denied2, reload, denied3)
        IN N_Return(r.ret) /\ n_navs' = n_navs \o r.navs
    /\ V_Returned
    /\ UNCHANGED <<n_page, n_link, n_href, n_clicks, n_fallback>>
    /\ N_Frame

N_Next ==
    \/ N_Find
    \/ N_HrefFails
    \/ N_Direct
    \/ N_Click
    \/ N_ControllerReturns

N_Done == n_pc = "done"

\* =====================================================================
\* The dataset crawler: pull_doj_dataset_headless (doj_dataset_helper.py)
\* =====================================================================
Datasets == 1..MaxDatasets

\* max_pages: int = None -- None is -1 here.
NoMaxPages == -1

\* if max_pages is not None and page_number > max_pages
max_pages_reached_late(page_number, max_pages) ==
    max_pages # NoMaxPages /\ page_number > max_pages + 1
max_pages_reached(page_number, max_pages) ==
    max_pages # NoMaxPages /\ page_number > max_pages

\* if count >= per_page_limit: break
limit_reached(count, per_page_limit) == count >= per_page_limit

\* Leaving the block `with sync_playwright() as p:` (by falling out of it,
\* by break or by an exception) stops Playwright and with it the browser it
\* launched; a browser closed before stays closed.
with_exit_leaks(session) == session
with_exit(session) == IF session = "open" THEN "stopped" ELSE session

\* What one visit of an anchor can come to (lines 104-124):
\*   "nohref"    href is empty: continue
\*   "href_raise" get_attribute raises          -> except, line 123
\*   "saved"     the fetch gave content, written to disk
\*   "save_raise" the fetch gave content, the write raises -> except
\*   "empty"     the fetch gave a dict without content
\*   "failed"    the fetch returned None
\*   "raise"     the fetch raised                -> except
ItemOutcomes == {"nohref", "href_raise", "saved", "save_raise", "empty",
                 "failed", "raise"}

\* Was pull_doj_file_headless called for the anchor.
item_fetched(o) == o \in {"saved", "save_raise", "empty", "failed", "raise"}

\* count += 1 (line 122) is reached unless the visit left the try early.
item_counted(o) == o \in {"saved", "empty", "failed"}

\* try: ... except Exception as e: _log(...) around each anchor's visit
\* (lines 104, 123-124): where control goes after the visit.
after_item_unguarded(o) ==
    IF o \in {"href_raise", "save_raise", "raise"} THEN "raised" ELSE "item"
after_item(o) == "item"

\* pull_doj_file_headless(file_url, ..., context=context): the session a
\* fetch of dataset idx goes through is the one opened for idx in this
\* iteration of the loop over dataset_paths (lines 44-45).
fetch_context_shared(idx) == 1
fetch_context(idx) == idx

\* Dead-letter records the crawler appends for an anchor's visit: the
\* function has no such call.
dead_letters_for(o) == 0

NoLog == [fetched |-> {}, on_page |-> 0, dead |-> 0, last |-> "none",
          fresh |-> FALSE]

D_Frame == UNCHANGED <<r_vars, v_vars, f_vars, n_vars, l_vars, o_vars, p_vars, g_vars>>

D_Idle ==
    /\ d_pc = "idle"
    /\ d_config = [n |-> 0, non_interactive |-> TRUE, max_pages |-> NoMaxPages,
                   per_page_limit |-> 0]
    /\ d_idx = 0 /\ d_session = [ds \in Datasets |-> "none"]
    /\ d_page_number = 0 /\ d_items = 0 /\ d_count = 0
    /\ d_exit = [ds \in Datasets |-> "none"] /\ d_log = NoLog

\* The call pull_doj_dataset_headless(dataset_paths, ..., per_page_limit,
\* non_interactive, max_pages) with at least one dataset path.
D_Start ==
    /\ d_pc = "open"
    /\ d_config \in [n : Datasets, non_interactive : BOOLEAN,
                     max_pages : {NoMaxPages} \cup 0..MaxCatalogPages,
                     per_page_limit : 0..MaxItems]
    /\ d_idx = 1 /\ d_session = [ds \in Datasets |-> "none"]
    /\ d_page_number = 0 /\ d_items = 0 /\ d_count = 0
    /\ d_exit = [ds \in Datasets |-> "none"] /\ d_log = NoLog

\* The crawl of dataset d_idx ends by leaving the while loop: browser.close()
\* (line 238), the with block is left, the for loop goes on.
D_NextDataset(how) ==
    /\ d_exit' = [d_exit EXCEPT ![d_idx] = how]
    /\ d_session' = [d_session EXCEPT ![d_idx] = with_exit("closed")]
    /\ IF d_idx < d_config.n
       THEN d_pc' = "open" /\ d_idx' = d_idx + 1
       ELSE d_pc' = "done" /\ d_idx' = d_idx

\* A break that leaves the for loop over dataset_paths (lines 64, 72, 82):
\* the with block is left and the function returns. closed: browser.close()
\* was called first.
D_BreakFor(how, closed) ==
    /\ d_exit' = [d_exit EXCEPT ![d_idx] = how]
    /\ d_session' = [d_session EXCEPT ![d_idx] =
                        with_exit(IF closed THEN "closed" ELSE "open")]
    /\ d_pc' = "done" /\ d_idx' = d_idx

\* An exception leaves the with block and the function.
D_Raise(how) ==
    /\ d_exit' = [d_exit EXCEPT ![d_idx] = how]
    /\ d_session' = [d_session EXCEPT ![d_idx] = with_exit("open")]
    /\ d_pc' = "raised" /\ d_idx' = d_idx

\* lines 49-86: how the opening of a dataset ends.
\*   goto, wait : page.goto(ds_url) and the idle wait, outside any try
\*   verified   : what ensure_page_verified returns at the dataset root
\*   prompt     : the operator's answer to the prompt ("skip", "enter"), or
\*                "raise" when opening the browser or reading input raises
\*   verified2  : what ensure_page_verified returns after the manual step
\* "crawl": the page loop starts;  "raise_goto", "raise_wait": the exception
\* of line 49, of line 50, leaves the function;
\* "unverified", "skip": browser.close() and break;  "still_unverified": break.
open_outcome(non_interactive, goto, wait, verified, prompt, verified2) ==
    IF goto = "raise" THEN "raise_goto"
    ELSE IF wait = "raise" THEN "raise_wait"
    ELSE IF verified THEN "crawl"
    ELSE IF non_interactive THEN "unverified"
    ELSE IF prompt = "skip" THEN "skip"
    ELSE IF prompt = "raise" THEN "crawl"
    ELSE IF verified2 THEN "crawl"
    ELSE "still_unverified"

\* lines 40-89: the next dataset path: a browser session is opened, the
\* dataset root is loaded and verified.
D_Open ==
    /\ d_pc = "open"
    /\ \E goto \in {"ok", "raise"}, wait \in {"ok", "raise"}, verified \in BOOLEAN,
          prompt \in {"skip", "enter", "raise"}, verified2 \in BOOLEAN :
        LET o == open_outcome(d_config.non_interactive, goto, wait, verified,
                              prompt, verified2)
        IN CASE o = "raise_goto" -> D_Raise("raised_goto")
             [] o = "raise_wait" -> D_Raise("raised_wait")
             [] o = "crawl" ->
                    /\ d_pc' = "page" /\ d_idx' = d_idx /\ d_exit' = d_exit
                    /\ d_session' = [d_session EXCEPT ![d_idx] = "open"]
             [] o \in {"unverified", "skip"} -> D_BreakFor(o, TRUE)
             [] OTHER -> D_BreakFor(o, FALSE)
    /\ d_page_number' = 0
    /\ UNCHANGED <<d_config, d_items, d_count, d_log>>
    /\ D_Frame

\* lines 90-100: the head of the page loop and the collection of the
\* page's item links (query_selector_all is outside any try).
D_Page ==
    /\ d_pc = "page"
    /\ d_page_number' = d_page_number + 1
    /\ IF max_pages_reached(d_page_number + 1, d_config.max_pages)
       THEN /\ D_NextDataset("max_pages")
            /\ UNCHANGED <<d_items, d_count, d_log>>
       ELSE \E anchors \in {-1} \cup 0..MaxItems :
              IF anchors = -1
              THEN D_Raise("raised_anchors") /\ UNCHANGED <<d_items, d_count, d_log>>
              ELSE /\ d_items' = anchors /\ d_count' = 0
                   /\ d_log' = [d_log EXCEPT !.last = "none", !.on_page = 0]
                   /\ d_pc' = "item"
                   /\ UNCHANGED <<d_idx, d_session, d_exit>>
    /\ UNCHANGED d_config
    /\ D_Frame

\* lines 101-124: one anchor is visited. exists: a file of the item's derived
\* name is on disk already (the code does not look).
D_Item ==
    /\ d_pc = "item" /\ d_items > 0
    /\ ~limit_reached(d_count, d_config.per_page_limit)
    /\ \E o \in ItemOutcomes, exists \in BOOLEAN :
        /\ d_items' = d_items - 1
        /\ d_count' = IF item_counted(o) THEN d_count + 1 ELSE d_count
        /\ d_log' = [fetched |-> IF item_fetched(o)
                                  THEN d_log.fetched \cup
                                       {[ds |-> d_idx, session |-> fetch_context(d_idx)]}
                                  ELSE d_log.fetched,
                     on_page |-> IF item_fetched(o)
                                  THEN d_log.on_page + 1 ELSE d_log.on_page,
                     dead |-> d_log.dead + dead_letters_for(o),
                     last |-> o,
                     fresh |-> d_log.fresh \/ (item_fetched(o) /\ ~exists)]
        /\ IF after_item(o) = "item"
           THEN d_pc' = "item" /\ UNCHANGED <<d_idx, d_session, d_exit>>
           ELSE D_Raise("raised_item")
    /\ UNCHANGED <<d_config, d_page_number>>
    /\ D_Frame

\* lines 101-103, 126: the anchors are used up or the per-page limit is
\* reached: on to the search for the next page.
D_ItemsDone ==
    /\ d_pc = "item"
    /\ d_items = 0 \/ limit_reached(d_count, d_config.per_page_limit)
    /\ d_pc' = "next"
    /\ d_log' = [d_log EXCEPT !.on_page = 0]
    /\ UNCHANGED <<d_config, d_idx, d_session, d_page_number, d_items, d_count,
                   d_exit>>
    /\ D_Frame

\* lines 146-236: what the pagination step comes to.
\*   link    : a next link was found (lines 127-144)
\*   href    : its href is set (a read that raises gives None)
\*   nav     : what page.goto(full_next) answers (-1: it raises)
\*   wait    : the idle wait after it
\*   click   : next_link.click() and the idle wait after it
\*   content : page.content() at line 184
\*   nav2, wait2, content2, denied2 : the retry of lines 204-213
\* "continue": the next page is processed;  "end": no next page;
\* "advance_failed": the handler of line 231;  "blocked": lines 215, 227.
advance_retry(nav2, wait2, content2, denied2) ==
    IF nav2 = -1 \/ wait2 = "raise" \/ content2 = "raise" THEN "blocked"
    ELSE IF denied2 \/ is_blocked(nav2) THEN "blocked"
    ELSE "continue"

advance_after(resp, content, nav2, wait2, content2, denied2) ==
    IF content = "raise" THEN "advance_failed"
    ELSE IF resp # -1 /\ is_blocked(resp)
         THEN advance_retry(nav2, wait2, content2, denied2)
    ELSE "continue"

advance(link, href, nav, wait, click, content, nav2, wait2, content2, denied2) ==
    IF ~link THEN "end"
    ELSE IF href /\ nav # -1 /\ wait = "ok"
         THEN advance_after(nav, content, nav2, wait2, content2, denied2)
    ELSE IF click = "raise" THEN "advance_failed"
    ELSE advance_after(IF href THEN nav ELSE -1, content, nav2, wait2,
                       content2, denied2)

\* What the pagination step can come to when a next link was found, and
\* when none was.
AdvanceOutcomes ==
    {advance(TRUE, href, nav, wait, click, content, nav2, wait2, content2, denied2) :
        href \in BOOLEAN, nav \in NavStatuses \cup {-1},
        wait \in {"ok", "raise"}, click \in {"ok", "raise"},
        content \in {"ok", "raise"}, nav2 \in NavStatuses \cup {-1},
        wait2 \in {"ok", "raise"}, content2 \in {"ok", "raise"},
        denied2 \in BOOLEAN}
\* The break of lines 215, 227 and 233 stands in the while loop of line 90
\* (inside try blocks only): the loop it leaves is the page loop, and the
\* for loop over dataset_paths goes on after browser.close() (line 238).
pagination_break_ends_run(o) == "for"
pagination_break(o) == "while"

NoNextLink ==
    advance(FALSE, FALSE, -1, "raise", "raise", "raise", -1, "raise", "raise", FALSE)

\* lines 126-236: the search for the next page and the move to it. A
\* catalog has at most MaxCatalogPages pages: its last page has no next link.
D_Next ==
    /\ d_pc = "next"
    /\ \E link \in BOOLEAN :
        \E o \in IF link /\ d_page_number < MaxCatalogPages
                 THEN AdvanceOutcomes ELSE {NoNextLink} :
            IF o = "continue"
            THEN d_pc' = "page" /\ UNCHANGED <<d_idx, d_session, d_exit>>
            ELSE IF pagination_break(o) = "while"
            THEN D_NextDataset(o)
            ELSE D_BreakFor(o, FALSE)
    /\ d_log' = [d_log EXCEPT !.last = "none"]
    /\ UNCHANGED <<d_config, d_page_number, d_items, d_count>>
    /\ D_Frame

D_Steps ==
    \/ D_Open
    \/ D_Page
    \/ D_Item
    \/ D_ItemsDone
    \/ D_Next

D_Done == d_pc = "done"
D_Raised == d_pc = "raised"

\* =====================================================================
\* The log, snapshot and dead-letter helpers (headed_interaction_util.py)
\* =====================================================================
MaxDeadLetters == 3      \* lines dead_letter.txt grows to
MaxLogLines == 2         \* lines verbose_log.txt grows to
MaxClock == 2            \* readings the clock takes

Urls == {"u1", "u2"}

\* _log_debug(msg, run_dir, verbose, exception): does the call raise.
\*   print1: print(f"[DEBUG] {msg}")                  (guarded, lines 45-48)
\*   file  : configure_logging / logger.info          (guarded, lines 49-55)
\*   print2: print(f"[ERROR] Failed to write ...")    (inside the handler,
\*           line 56, not guarded)
log_debug(verbose, print1, file, print2) ==
    IF ~verbose THEN "ok"
    ELSE IF file = "raise" /\ print2 = "raise" THEN "raise"
    ELSE "ok"

\* Did _log_debug add its line to verbose_log.txt.
log_written(verbose, file) == verbose /\ file = "ok"

\* save_snapshot(page, ...) with its own log calls: the write (and
\* page.content()) sits in the try, so does the _log_debug of line 82; the
\* _log_debug of line 84 is in the handler.
\*   log1: what the _log_debug of line 82 does;  log2: that of line 84.
save_snapshot_logged(write, log1, log2) ==
    IF (write = "raise" \/ log1 = "raise") /\ log2 = "raise" THEN "raise"
    ELSE save_snapshot(write)

\* f"{time.strftime('%Y-%m-%d %H:%M:%S')} - {file_url}\n": one line of
\* dead_letter.txt, as its three parts.
dead_letter_line(ts, url) == <<ts, "-", url>>

\* with open(dl_path, 'a', encoding='utf-8') as dlf: dlf.write(line)
dead_letter_write_truncating(file, line) == <<line>>
dead_letter_write(file, line) == Append(file, line)

\* _append_dead_letter(file_url, run_dir): [ret, wrote]. The open and the
\* write sit in the try with the _log_debug of line 107; the _log_debug of
\* line 109 is in the handler.
append_dead_letter(write, log1, log2) ==
    [ret |-> IF (write = "raise" \/ log1 = "raise") /\ log2 = "raise"
             THEN "raise" ELSE "ok",
     wrote |-> write = "ok"]

\* Lines the two helpers above add to verbose_log.txt: the handler's
\* _log_debug runs only when the try block was left by an exception.
helper_log_lines(write, log1, log2) ==
    IF write = "ok" /\ log1.ret = "ok"
    THEN IF log1.written THEN 1 ELSE 0
    ELSE IF log2.written THEN 1 ELSE 0

\* What one _log_debug call made with verbose=True can do, by the state of
\* the console and of the log file.
LogCalls == {[ret |-> log_debug(TRUE, pr1, file, pr2), written |-> log_written(TRUE, file)] :
                pr1 \in {"ok", "raise"}, file \in {"ok", "raise"}, pr2 \in {"ok", "raise"}}

NoHelperCall == [op |-> "none", wrote |-> FALSE, ret |-> "none"]

L_Frame == UNCHANGED <<r_vars, v_vars, f_vars, n_vars, d_vars, o_vars, p_vars, g_vars>>

L_Idle ==
    /\ l_dead = <<>> /\ l_log = 0 /\ l_clock = 0 /\ l_last = NoHelperCall

\* A run directory whose dead-letter file and log are empty.
L_Start == L_Idle

\* time passes between two calls, or does not.
L_Tick == l_clock' \in {l_clock, l_clock + 1} /\ l_clock' <= MaxClock

L_Logged(lines) ==
    l_log' = IF l_log + lines <= MaxLogLines THEN l_log + lines ELSE MaxLogLines

\* lines 41-57: a call of _log_debug.
L_LogDebug ==
    /\ \E verbose \in BOOLEAN, pr1 \in {"ok", "raise"}, file \in {"ok", "raise"},
          pr2 \in {"ok", "raise"} :
        /\ l_last' = [op |-> "log", wrote |-> log_written(verbose, file),
                      ret |-> log_debug(verbose, pr1, file, pr2)]
        /\ L_Logged(IF log_written(verbose, file) THEN 1 ELSE 0)
    /\ L_Tick
    /\ UNCHANGED l_dead
    /\ L_Frame

\* lines 76-86: a call of save_snapshot.
L_SaveSnapshot ==
    /\ \E write \in {"ok", "raise"}, log1 \in LogCalls, log2 \in LogCalls :
        /\ l_last' = [op |-> "snapshot", wrote |-> write = "ok",
                      ret |-> save_snapshot_logged(write, log1.ret, log2.ret)]
        /\ L_Logged(helper_log_lines(write, log1, log2))
    /\ L_Tick
    /\ UNCHANGED l_dead
    /\ L_Frame

\* lines 102-110: a call of _append_dead_letter(file_url, run_dir).
L_AppendDeadLetter ==
    /\ Len(l_dead) < MaxDeadLetters
    /\ \E url \in Urls, write \in {"ok", "raise"}, log1 \in LogCalls,
          log2 \in LogCalls :
        LET r == append_dead_letter(write, log1.ret, log2.ret)
        IN /\ l_last' = [op |-> "dead_letter", wrote |-> r.wrote, ret |-> r.ret]
           /\ l_dead' = IF r.wrote
                        THEN dead_letter_write(l_dead, dead_letter_line(l_clock, url))
                        ELSE l_dead
           /\ L_Logged(helper_log_lines(write, log1, log2))
    /\ L_Tick
    /\ L_Frame

L_Next ==
    \/ L_LogDebug
    \/ L_SaveSnapshot
    \/ L_AppendDeadLetter

\* =====================================================================
\* _is_verified and click_verification_controls, each called on its own
\* =====================================================================
NoSignals == [cookie |-> "other", success |-> "absent", robot |-> "absent",
              block |-> "absent", list |-> "absent"]

O_Frame == UNCHANGED <<r_vars, v_vars, f_vars, n_vars, d_vars, l_vars, p_vars, g_vars>>

O_Idle == o_pc = "idle" /\ o_sig = NoSignals /\ o_ret = "none"

\* A call of _is_verified() on a page that answers sig.
O_Start == o_pc = "call" /\ o_sig \in Signals /\ o_ret = "none"

\* lines 274-314
O_Evaluate ==
    /\ o_pc = "call"
    /\ o_pc' = "done"
    /\ o_ret' = oracle_result(o_sig)
    /\ UNCHANGED o_sig
    /\ O_Frame

O_Next == O_Evaluate

O_Done == o_pc = "done"

NoDoc == [ok |-> TRUE, cands |-> <<>>]
NoScan == [ret |-> FALSE, clicks |-> 0, fault |-> FALSE]
NoProbe == [ret |-> FALSE, clicks |-> 0, fault |-> FALSE, framed |-> FALSE]

P_Frame == UNCHANGED <<r_vars, v_vars, f_vars, n_vars, d_vars, l_vars, o_vars, g_vars>>

P_Idle == p_pc = "idle" /\ p_main = NoDoc /\ p_scan = NoScan /\ p_out = NoProbe

\* A call of click_verification_controls(page_obj, ...) on a page whose
\* main document answers p_main.
P_Start == p_pc = "main" /\ p_main \in MainDocs /\ p_scan = NoScan /\ p_out = NoProbe

\* lines 180-189: the scan of the main document; return True at line 187.
P_Main ==
    /\ p_pc = "main"
    /\ LET m == cvc_main(p_main, TRUE)
       IN /\ p_scan' = m
          /\ IF m.ret
             THEN p_pc' = "done" /\ p_out' = cvc_rest(m, [ok |-> TRUE, list |-> <<>>], TRUE)
             ELSE p_pc' = "frames" /\ p_out' = p_out
    /\ UNCHANGED p_main
    /\ P_Frame

\* lines 191-208: the nested frames.
P_Frames ==
    /\ p_pc = "frames"
    /\ \E frames \in FrameLists :
        p_out' = cvc_rest(p_scan, frames, TRUE)
    /\ p_pc' = "done"
    /\ UNCHANGED <<p_main, p_scan>>
    /\ P_Frame

P_Next ==
    \/ P_Main
    \/ P_Frames

P_Done == p_pc = "done"

\* =====================================================================
\* _try_get_request called on its own
\* =====================================================================
NoReturn == [kind |-> "none", x |-> NoGet]

G_Frame == UNCHANGED <<r_vars, v_vars, f_vars, n_vars, d_vars, l_vars, o_vars, p_vars>>

G_Idle ==
    /\ g_pc = "idle" /\ g_variant = "helper" /\ g_url = "u1" /\ g_retries = 0
    /\ g_attempt = 0 /\ g_trace = <<>> /\ g_out = NoReturn

\* A call _try_get_request(page, url) inside pull_doj_file_headless(...,
\* retries); the loop starts with attempt = 1.
G_Start ==
    /\ g_pc = "get" /\ g_variant \in {"helper", "verify"} /\ g_url \in Urls
    /\ g_retries \in 0..MaxFetchRetries
    /\ g_attempt = 1 /\ g_trace = <<>> /\ g_out = NoReturn

\* Where a pass that met o goes once its sleep, if any, is over.
G_After(p, o) ==
    IF p.next = "retry"
    THEN g_pc' = "get" /\ g_attempt' = g_attempt + 1 /\ g_out' = g_out
    ELSE IF p.next = "return"
    THEN g_pc' = "returned" /\ g_attempt' = g_attempt
         /\ g_out' = [kind |-> "returned", x |-> o]
    ELSE g_pc' = "raised" /\ g_attempt' = g_attempt
         /\ g_out' = [kind |-> "raised", x |-> o]

\* One pass of the loop up to its time.sleep: page.request.get answers o
\* (doj_file_helper.py lines 40-61 and 62-69).
G_Get ==
    /\ g_pc = "get"
    /\ \E o \in GetOutcomes :
        LET p == try_get_pass(g_variant, g_attempt, g_retries, o)
        IN /\ g_trace' = Append(g_trace, Ev("get", g_attempt, o))
           /\ IF p.sleep > 0
              THEN g_pc' = "sleep" /\ UNCHANGED <<g_attempt, g_out>>
              ELSE G_After(p, o)
    /\ UNCHANGED <<g_variant, g_url, g_retries>>
    /\ G_Frame

\* time.sleep(sleep_time) (lines 57-59 and 70-73) and what follows it.
G_Sleep ==
    /\ g_pc = "sleep"
    /\ LET o == g_trace[Len(g_trace)].x
           p == try_get_pass(g_variant, g_attempt, g_retries, o)
       IN /\ g_trace' = Append(g_trace, Ev("sleep", g_attempt, p.sleep))
          /\ G_After(p, o)
    /\ UNCHANGED <<g_variant, g_url, g_retries>>
    /\ G_Frame

G_Next ==
    \/ G_Get
    \/ G_Sleep

G_Done == g_pc \in {"returned", "raised"}
G_Events(ev) == {i \in 1..Len(g_trace) : g_trace[i].ev = ev}

\* The components a specification does not run.
H_Idle == L_Idle /\ O_Idle /\ P_Idle /\ G_Idle

\* =====================================================================
\* Specifications
\* =====================================================================
\* retry_with_backoff called with max_retries in 0..MaxRetriesBound and
\* backoff_factor in 1..MaxBackoff.
InitRetry == R_Start /\ V_Idle /\ F_Idle /\ N_Idle /\ D_Idle /\ H_Idle

SpecRetry == InitRetry /\ [][R_Next]_vars

\* ensure_page_verified called with max_attempts in 0..MaxAttemptsBound.
InitVerify == (\E m \in 0..MaxAttemptsBound : V_Start(m)) /\ R_Idle /\ F_Idle
              /\ N_Idle /\ D_Idle /\ H_Idle

SpecVerify == InitVerify /\ [][V_Next]_vars

\* pull_doj_file_headless of either file, called with non_interactive in
\* BOOLEAN and retries in 0..MaxFetchRetries; the steps of the controller
\* it calls are the controller's own actions.
InitFetch == F_Start /\ V_Idle /\ R_Idle /\ N_Idle /\ D_Idle /\ H_Idle

FetchNext == F_Next \/ V_Next

SpecFetch == InitFetch /\ [][FetchNext]_vars

\* navigate_to_next_page; the steps of the controller it calls are the
\* controller's own actions.
InitWalk == N_Start /\ V_Idle /\ R_Idle /\ F_Idle /\ D_Idle /\ H_Idle

WalkNext == N_Next \/ V_Next

SpecWalk == InitWalk /\ [][WalkNext]_vars

\* pull_doj_dataset_headless, called with one to MaxDatasets dataset paths.
InitCrawl == D_Start /\ V_Idle /\ R_Idle /\ F_Idle /\ N_Idle /\ H_Idle

SpecCrawl == InitCrawl /\ [][D_Steps]_vars

\* Any sequence of calls of _log_debug, save_snapshot and
\* _append_dead_letter on one run directory.
InitLog == L_Start /\ G_Idle /\ O_Idle /\ P_Idle
           /\ R_Idle /\ V_Idle /\ F_Idle /\ N_Idle /\ D_Idle

SpecLog == InitLog /\ [][L_Next]_vars

\* _is_verified() on every combination of page answers.
InitOracle == O_Start /\ G_Idle /\ L_Idle /\ P_Idle
              /\ R_Idle /\ V_Idle /\ F_Idle /\ N_Idle /\ D_Idle

SpecOracle == InitOracle /\ [][O_Next]_vars

\* click_verification_controls on every page of the bounds.
InitProbe == P_Start /\ G_Idle /\ L_Idle /\ O_Idle
             /\ R_Idle /\ V_Idle /\ F_Idle /\ N_Idle /\ D_Idle

SpecProbe == InitProbe /\ [][P_Next]_vars

\* _try_get_request with retries in 0..MaxFetchRetries, page.request.get
\* answering any of GetOutcomes in each attempt.
InitGet == G_Start /\ L_Idle /\ O_Idle /\ P_Idle
           /\ R_Idle /\ V_Idle /\ F_Idle /\ N_Idle /\ D_Idle

SpecGet == InitGet /\ [][G_Next]_vars

\* ---------------------------------------------------------------------
\* Claims about ensure_page_verified (checked under SpecVerify)
\* ---------------------------------------------------------------------

\* C1: for max_attempts >= 1 the controller returns True exactly when the
\* oracle reported verified at entry or after one of the first max_attempts
\* probe rounds, it returns False only after max_attempts rounds that all
\* ended unverified, and it never runs more than max_attempts rounds.
ThmC1_TrueIffVerifiedWithinRounds ==
    v_max >= 1 =>
        /\ V_Rounds <= v_max
        /\ Len(v_oracle) <= V_Rounds + 1
        /\ V_Done =>
            /\ v_ret \in {"True", "False"}
            /\ v_ret = "True" <=> \E i \in 1..Len(v_oracle) : v_oracle[i]
            /\ v_ret = "False" =>
                  V_Rounds = v_max /\ Len(v_oracle) = v_max + 1

\* C1 witness: three rounds allowed, the oracle said no at entry and after
\* rounds 1 and 2 and yes after round 3; the controller returned True.
WitC1_VerifiedInLastRound ==
    /\ V_Done /\ v_max = 3 /\ v_ret = "True"
    /\ v_oracle = <<FALSE, FALSE, FALSE, TRUE>>
    /\ V_Rounds = 3

\* C2: the controller never raises; when it ends it has returned a boolean,
\* whatever page queries, clicks, script evaluations, idle waits or snapshot
\* writes failed on the way.
ThmC2_NeverRaises ==
    /\ v_ret # "raised"
    /\ V_Done => v_ret \in {"True", "False"}

\* C2 witness: page operations failed during the call and the controller
\* returned False after its rounds.
WitC2_ReturnedDespiteFaults ==
    V_Done /\ v_faults /\ v_ret = "False" /\ V_Rounds >= 2

\* C3: when the cookie read of the entry check holds the age-verified
\* marker, the oracle reports verified whatever the other signals say and the
\* controller returns True at once: no pattern-match probe, no age-button
\* probe and no reauth hook has been invoked.
ThmC3_CookieShortCircuits ==
    v_entry.cookie = "marker" =>
        /\ v_oracle = <<TRUE>>
        /\ V_Done /\ v_ret = "True"
        /\ v_calls = NoCalls
        /\ v_pauses = <<>>

\* C3 witness: the cookie holds the marker while every other signal says
\* not verified, and the controller has returned True without a probe.
WitC3_CookieAgainstOtherSignals ==
    /\ v_entry.cookie = "marker" /\ ~v_entry.rest
    /\ V_Done /\ v_ret = "True" /\ v_calls = NoCalls

\* ---------------------------------------------------------------------
\* Claims about retry_with_backoff (checked under SpecRetry)
\* ---------------------------------------------------------------------

\* C8: func is called at most max_retries times, and a call of func that
\* succeeds is the last thing the retrier does: it returns that call's value
\* and calls neither func, recovery_fun nor time.sleep afterwards.
ThmC8_StopsAtFirstSuccess ==
    /\ Cardinality(R_Events("func")) <= r_max
    /\ \A i \in 1..Len(r_trace) :
          R_FuncOk(i) => /\ i = Len(r_trace)
                         /\ r_pc = "returned"
                         /\ r_out = [kind |-> "returned", x |-> r_trace[i].x]

\* C8 witness: the second attempt succeeded after a failed first one, and
\* the retrier has returned.
WitC8_SuccessAfterFailure ==
    /\ r_pc = "returned"
    /\ Len(r_trace) = 4
    /\ R_FuncFailed(1) /\ R_FuncOk(4)

\* C9 (as claimed): when all max_retries attempts fail the retrier has slept
\* max_retries - 1 times, never after the final failed attempt.
CexC9_SleepsOnlyBetweenAttempts ==
    R_AllFailed => Cardinality(R_Events("sleep")) <= r_max - 1

\* C10: the sleep that follows the failure of attempt k lasts
\* backoff_factor * 2^(k-1) seconds: the first sleep lasts backoff_factor and
\* each later one twice the one before; k counts the failed calls of func.
ThmC10_SleepIsExponential ==
    \A i \in R_Events("sleep") :
        /\ i > 1 /\ R_FuncFailed(i - 1)
        /\ r_trace[i].k = r_trace[i - 1].k
        /\ r_trace[i].k = Cardinality({j \in 1..i : R_FuncFailed(j)})
        /\ r_trace[i].k = 1 => R_SleepSeconds(i) = r_base
        /\ r_trace[i].k > 1 =>
              \E j \in R_Events("sleep") :
                  /\ j < i /\ r_trace[j].k = r_trace[i].k - 1
                  /\ R_SleepSeconds(i) = 2 * R_SleepSeconds(j)

\* C10 witness: the sleep after the third failed attempt with
\* backoff_factor 2 has happened (8 seconds).
WitC10_ThirdSleep ==
    \E i \in R_Events("sleep") :
        r_trace[i].k = 3 /\ r_base = 2 /\ R_SleepSeconds(i) = 8

\* C11 (as claimed): after each failed attempt recovery_fun is called with
\* that attempt's error before the retrier sleeps: the recovery call for
\* attempt k precedes the sleep for attempt k.
CexC11_RecoveryBeforeSleep ==
    \A i \in R_Events("sleep") :
        \E j \in R_Events("recovery_fun") :
            j < i /\ r_trace[j].k = r_trace[i].k

\* C12: for max_retries >= 1, when every attempt has failed and no recovery
\* call raised, the retrier raises the very error object raised by the last
\* (max_retries-th) call of func, not an earlier one and not a new one.
ThmC12_RaisesLastError ==
    (r_pc = "raised" /\ r_max >= 1 /\ R_Events("recovery_raise") = {}) =>
        /\ Cardinality(R_Events("func")) = r_max
        /\ \E i \in R_Events("func") :
              /\ \A j \in R_Events("func") : j <= i
              /\ R_FuncFailed(i) /\ r_trace[i].k = r_max
              /\ r_out = [kind |-> "raised", x |-> r_trace[i].x]

\* C12 witness: three attempts failed, the first with a 404 and the last with
\* a timeout, and the retrier raised the third attempt's timeout.
WitC12_ThirdErrorRaised ==
    /\ r_pc = "raised" /\ r_max = 3 /\ R_Events("recovery_raise") = {}
    /\ r_trace[1].x = OpError(1, "http404")
    /\ r_out.x = OpError(3, "timeout")

\* C13: when recovery_fun raises, that error leaves the retrier at once: the
\* raising call is the last thing the retrier did (no later call of func, of
\* recovery_fun or of time.sleep) and its error is what the retrier raised.
ThmC13_RecoveryErrorPropagates ==
    \A i \in R_Events("recovery_raise") :
        /\ i = Len(r_trace)
        /\ r_pc = "raised"
        /\ r_out = [kind |-> "raised", x |-> r_trace[i].x]
        /\ Cardinality(R_Events("func")) = r_trace[i].k

\* C13 witness: with three attempts allowed, recovery_fun raised after the
\* second failed attempt and the retrier raised that error; func was called
\* twice.
WitC13_RecoveryRaisedMidway ==
    /\ r_max = 3 /\ r_pc = "raised"
    /\ r_out.x = RecError(2)
    /\ Cardinality(R_Events("func")) = 2

\* ---------------------------------------------------------------------
\* Claims about pull_doj_file_headless (checked under SpecFetch)
\* ---------------------------------------------------------------------
\* The allowed media set as the claims name it, and the containment test
\* of a declared content-type against it.
AllowedMedia == {"application/pdf", "video/mp4", "video/webm", "video/mpeg",
                 "audio/m4a", "audio/wav"}
DeclaresAllowed(r) ==
    r.kind = "resp" /\ \E i \in 1..Len(r.ctype) : r.ctype[i] \in AllowedMedia
DeclaresPdf(r) ==
    r.kind = "resp" /\ \E i \in 1..Len(r.ctype) : r.ctype[i] = "application/pdf"
Answered(r, status) == r.kind = "resp" /\ r.status = status

\* C4 (as claimed): every FetchResult the fetcher returns comes from a
\* response whose declared content-type contains an allowed media type; a
\* 200 response of any other type is never returned as a FetchResult.
CexC4_FetchResultHasAllowedType ==
    F_Returned =>
        \E i \in 1..Len(f_result.ctype) : f_result.ctype[i] \in AllowedMedia

\* C5 (as claimed): when the first GET of the file URL answers 404 the call
\* ends there with a failure: no backoff sleep, no further GET, neither
\* gate-clearing probe and no controller run.
CexC5_NotFoundIsTerminal ==
    Answered(f_first, 404) =>
        /\ F_Done /\ f_result.kind = "None"
        /\ f_sleeps = <<>> /\ f_gets = 1
        /\ f_calls = NoFetchCalls /\ f_pre = NoFetchCalls

CexC7_GateClearingOnceBetween ==
    (/\ Answered(f_first, 200) /\ ~DeclaresAllowed(f_first)
     /\ Answered(f_second, 200) /\ DeclaresPdf(f_second) /\ f_second.body = "ok") =>
        /\ F_Returned
        /\ f_pre = NoFetchCalls
        /\ f_calls.pattern = 1 /\ f_calls.age = 1

\* ---------------------------------------------------------------------
\* Claims about navigate_to_next_page (checked under SpecWalk)
\* ---------------------------------------------------------------------

\* The page answers both queries and holds neither the classed
\* pagination-next element nor a link whose text starts with 'next'.
NoNextControl ==
    /\ n_page.cand = "absent" /\ n_page.links.ok
    /\ \A i \in 1..Len(n_page.links.list) :
          LET t == n_page.links.list[i]
          IN ~(t.ok /\ Len(t.words) >= 1 /\ t.words[1] \in {"next", "Next"})

\* C18 (as claimed): when the current page has neither a pagination-next
\* element nor any link whose text starts with 'next', the walker returns
\* false and does not raise.
CexC18_NoNextControlReturnsFalse ==
    (N_Done /\ n_link = "none" /\ NoNextControl) => n_ret = "False"

\* C19 (as claimed): when direct navigation to the next page answers with a
\* block status (401, 403, 451 or 503), the walker runs the controller once,
\* navigates to the same target exactly once more, returns false if that
\* retry is still blocked, and never navigates to the target a third time.
CexC19_BlockedDirectNavigationRetriedOnce ==
    (/\ N_Done /\ n_href = "url"
     /\ Len(n_navs) >= 1 /\ n_navs[1] \in {401, 403, 451, 503}) =>
        /\ n_ctl = 1
        /\ Len(n_navs) = 2
        /\ n_navs[2] \in {-1, 401, 403, 451, 503} => n_ret = "False"

\* ---------------------------------------------------------------------
\* Claims about pull_doj_dataset_headless (checked under SpecCrawl)
\* ---------------------------------------------------------------------

\* The visits the claims call a failure of the item: the fetch returned
\* None, the fetch raised, the write of the content raised.
ItemFailures == {"failed", "raise", "save_raise"}

\* C14: a failure of one item (the fetch returns a failure, raises, or
\* saving its content fails) never ends the dataset crawl: the crawl stays
\* in the page's item loop with its session open and one anchor fewer to
\* visit, and when the anchors are used up (or the per-page limit is
\* reached) the next step is the search for the next page.
ThmC14_ItemFailureContained ==
    [][ /\ (d_pc = "item" /\ d_items' # d_items /\ d_log'.last \in ItemFailures) =>
            /\ d_pc' = "item" /\ d_items' = d_items - 1
            /\ d_idx' = d_idx /\ d_exit'[d_idx] = "none"
            /\ d_session'[d_idx] = "open"
        /\ (d_pc = "item" /\ d_items' = d_items) => d_pc' = "next"
      ]_vars

\* C14 witness: the write of a fetched item's content raised and the crawl
\* went on to the search for the next page of the same dataset.
WitC14_PaginationAfterFailedSave ==
    /\ d_pc = "next" /\ d_log.last = "save_raise"
    /\ d_session[d_idx] = "open" /\ d_exit[d_idx] = "none"

\* C15 (as claimed): for every item whose fetch permanently fails (returns
\* None or raises) a dead-letter record is appended before the crawler moves
\* to the next item.
CexC15_DeadLetterPerFailedFetch ==
    (d_pc = "item" /\ d_log.last \in {"failed", "raise"}) => d_log.dead >= 1

\* C16 (as claimed): when the controller returns false at a dataset root in
\* a non-interactive run, no item of that dataset is fetched and every later
\* dataset of the list is processed (its session was opened) before the
\* call returns.
CexC16_LaterDatasetsProcessed ==
    (D_Done /\ d_config.non_interactive) =>
        \A i \in 1..d_config.n :
            d_exit[i] = "unverified" =>
                /\ \A u \in d_log.fetched : u.ds # i
                /\ \A j \in (i + 1)..d_config.n : d_session[j] # "none"

\* C17 (as claimed): when the derived filename of every item visited
\* already exists on disk, the crawl makes no File Fetcher call and appends
\* no dead-letter record.
CexC17_RerunFetchesNothing ==
    (D_Done /\ ~d_log.fresh) =>
        /\ d_log.fetched = {}
        /\ d_log.dead = 0

\* C20: the session opened for a dataset is released on every exit path of
\* that dataset's crawl (normal end of pagination, verification failure,
\* pagination block, max_pages reached, an exception while loading or
\* crawling): a session is open only for the dataset being crawled, and
\* none is open once the call has returned or raised.
ThmC20_SessionReleasedOnEveryExit ==
    \A i \in Datasets :
        /\ d_exit[i] # "none" => d_session[i] \in {"closed", "stopped"}
        /\ d_session[i] = "open" => (i = d_idx /\ d_pc \in {"page", "item", "next"})
        /\ (i < d_idx \/ d_pc \in {"done", "raised"}) =>
              (d_session[i] = "none" \/ d_exit[i] # "none")

\* C20 witness: the manual verification step left the dataset root
\* unverified, the crawl of the dataset ended by the break that is not
\* preceded by browser.close(), and the session is released all the same.
WitC20_ReleasedWithoutExplicitClose ==
    /\ D_Done /\ d_exit[d_idx] = "still_unverified"
    /\ d_session[d_idx] = "stopped"

\* C21: during a run over several datasets at most one session is open,
\* every File Fetcher call made for a dataset goes through the session
\* opened for that dataset, that session is open while the dataset's
\* items are visited, and no session serves the crawl of another dataset.
ThmC21_OneSessionPerDataset ==
    /\ Cardinality({i \in Datasets : d_session[i] = "open"}) <= 1
    /\ \A u \in d_log.fetched : u.session = u.ds
    /\ d_pc = "item" => d_session[d_idx] = "open"

\* C21 witness: the second dataset of the list had an item fetched through
\* its own session after the first dataset's session was closed.
WitC21_SecondDatasetOwnSession ==
    /\ d_idx = 2 /\ d_pc = "item"
    /\ [ds |-> 2, session |-> 2] \in d_log.fetched
    /\ [ds |-> 1, session |-> 1] \in d_log.fetched
    /\ d_session[1] = "closed" /\ d_session[2] = "open"

\* C22 (as claimed): the expiry of a network-idle wait is never fatal; in
\* particular a wait that times out after the load of a dataset root lets
\* the crawl proceed and does not abort it.
CexC22_RootWaitTimeoutNotFatal ==
    \A i \in Datasets : d_exit[i] # "raised_wait"

\* C23: with max_pages = M set, the crawl of a dataset processes at most M
\* pages (none when M = 0), and when the page counter passes M the crawl of
\* the dataset has ended with its session closed, whatever next-page links
\* the pages offer.
ThmC23_MaxPagesBoundsTheCrawl ==
    d_config.max_pages # NoMaxPages =>
        /\ d_pc \in {"item", "next"} => d_page_number <= d_config.max_pages
        /\ d_page_number > d_config.max_pages =>
              /\ d_pc \in {"open", "done"}
              /\ \E i \in 1..d_idx :
                    d_exit[i] = "max_pages" /\ d_session[i] = "closed"

\* C23 witness: max_pages = 1, the first page offered a next-page link, and
\* the crawl of the dataset stopped at the second pass of the page loop with
\* the session closed.
WitC23_StoppedAtMaxPages ==
    /\ d_config.max_pages = 1 /\ d_page_number = 2
    /\ d_exit[1] = "max_pages" /\ d_session[1] = "closed"

\* ---------------------------------------------------------------------
\* Claims about the log, snapshot and dead-letter helpers (SpecLog)
\* ---------------------------------------------------------------------

\* C24: the dead-letter file is append-only: a successful
\* _append_dead_letter call adds exactly one line '{timestamp} - {url}' at
\* the end and leaves every earlier line as it was; no other helper call,
\* and no failed call, changes the file.
ThmC24_DeadLetterAppendOnly ==
    [][ IF l_last'.op = "dead_letter" /\ l_last'.wrote
        THEN /\ Len(l_dead') = Len(l_dead) + 1
             /\ SubSeq(l_dead', 1, Len(l_dead)) = l_dead
             /\ \E url \in Urls : l_dead'[Len(l_dead')] = <<l_clock, "-", url>>
        ELSE l_dead' = l_dead
      ]_vars

\* C24 witness: two successful appends for different URLs, the first line
\* still in place under the second.
WitC24_TwoLinesInOrder ==
    /\ l_last.op = "dead_letter" /\ l_last.wrote
    /\ Len(l_dead) = 2 /\ l_dead[1][3] = "u1" /\ l_dead[2][3] = "u2"
    /\ l_dead[1][1] < l_dead[2][1]

\* C25 (as claimed): whatever filesystem or console write fails, the
\* logging, snapshot and dead-letter helpers return normally.
CexC25_HelpersNeverRaise ==
    l_last.ret # "raise"

\* ---------------------------------------------------------------------
\* Claims about _is_verified (SpecOracle)
\* ---------------------------------------------------------------------

\* C26 (as claimed): with no age-verified cookie and no visible success
\* marker, a visible bot-challenge element makes the oracle report not
\* verified whatever the list markup and the age-gate block are, and a
\* challenge element that is not visible gives no negative signal: the
\* catalog list without an age-gate block, or a hidden age-gate block, still
\* make the page verified.
CexC26_OnlyVisibleChallengeIsNegative ==
    (O_Done /\ o_sig.cookie = "other" /\ o_sig.success \in {"absent", "hidden"}) =>
        /\ o_sig.robot = "visible" => o_ret = "False"
        /\ (o_sig.robot = "hidden" /\ o_sig.block = "absent" /\ o_sig.list = "present")
              => o_ret = "True"
        /\ (o_sig.robot = "hidden" /\ o_sig.block = "hidden") => o_ret = "True"

\* C27: with no cookie marker, no visible success marker and no challenge
\* element, the oracle reports verified exactly when the age-gate block is
\* absent and the catalog-list markup is present, or the age-gate block is
\* present and computed-hidden; in every other combination it reports not
\* verified.
ThmC27_ListOrHiddenBlock ==
    (/\ O_Done /\ o_sig.cookie # "marker" /\ o_sig.success # "visible"
     /\ o_sig.robot = "absent") =>
        /\ o_ret \in {"True", "False"}
        /\ o_ret = "True" <=>
              \/ o_sig.block = "absent" /\ o_sig.list = "present"
              \/ o_sig.block = "hidden"

\* C27 witness: an age-gate block that is present and hidden, no list
\* markup, and the oracle said verified.
WitC27_HiddenBlockVerified ==
    /\ O_Done /\ o_ret = "True"
    /\ o_sig.cookie = "other" /\ o_sig.success = "absent" /\ o_sig.robot = "absent"
    /\ o_sig.block = "hidden" /\ o_sig.list = "absent"

\* The page answers with every read that raises replaced by the answer that
\* gives no signal.
Quiet(sig) ==
    [cookie |-> IF sig.cookie = "raise" THEN "other" ELSE sig.cookie,
     success |-> IF sig.success = "raise" THEN "absent" ELSE sig.success,
     robot |-> IF sig.robot = "raise" THEN "absent" ELSE sig.robot,
     block |-> IF sig.block \in {"query_raises", "display_raises"}
               THEN "shown" ELSE sig.block,
     list |-> IF sig.list = "raise" THEN "absent" ELSE sig.list]

\* C28: the oracle never raises, and when one of its checks raises its
\* result is that of the ordered evaluation with that check giving no
\* signal: the later checks are still evaluated in order.
ThmC28_RaisingCheckGivesNoSignal ==
    O_Done =>
        /\ o_ret \in {"True", "False"}
        /\ o_ret = oracle_result(Quiet(o_sig))

\* C28 witness: the cookie read, the success-marker read and the challenge
\* query all raised, and the fourth check still found the hidden age-gate
\* block.
WitC28_LaterCheckDecides ==
    /\ O_Done /\ o_ret = "True"
    /\ o_sig.cookie = "raise" /\ o_sig.success = "raise" /\ o_sig.robot = "raise"
    /\ o_sig.block = "hidden"

\* C29 (as claimed): in every probe round the pattern-match probe, the
\* age-button probe and the reauth hook are each attempted, whatever fails
\* in locating or clicking the robot button: once the robot/reauth block of
\* round k is over, the hook has been invoked k times and the pattern probe
\* k times.
CexC29_ReauthHookEveryRound ==
    v_pc \in {"age", "recheck", "pause"} =>
        /\ v_calls.pattern = v_attempt
        /\ v_calls.reauth = v_attempt

\* C30 (as claimed): one invocation of the pattern-match probe clicks (or
\* checks) at most one element, and it touches the nested frames only if no
\* main-document candidate was clicked, also when the network-idle wait
\* after a click times out.
CexC30_AtMostOneClick ==
    P_Done =>
        /\ p_out.clicks <= 1
        /\ p_out.framed => p_scan.clicks = 0

\* C31 (as claimed): a gate-clearing probe returns True exactly when it
\* clicked an element during the invocation, also when the network-idle
\* wait after the click fails.
CexC31_TrueIffClicked ==
    P_Done => (p_out.ret <=> p_out.clicks >= 1)

\* ---------------------------------------------------------------------
\* More claims about retry_with_backoff (checked under SpecRetry)
\* ---------------------------------------------------------------------
R_Failed == {i \in R_Events("func") : R_FuncFailed(i)}

\* C37: recovery_fun is invoked only for a failed attempt of func, with the
\* error of that attempt as its argument, at most once per attempt and never
\* for an attempt that returned; when the call is over, every failed attempt
\* has had its invocation.
ThmC37_RecoveryOncePerFailure ==
    /\ \A i \in R_Events("recovery_fun") :
          /\ \E j \in R_Failed :
                /\ j < i
                /\ r_trace[j].k = r_trace[i].k
                /\ r_trace[j].x = r_trace[i].x
          /\ \A j \in R_Events("func") :
                r_trace[j].k = r_trace[i].k => ~R_FuncOk(j)
          /\ \A i2 \in R_Events("recovery_fun") :
                r_trace[i2].k = r_trace[i].k => i2 = i
    /\ R_Done =>
          \A j \in R_Failed :
              \E i \in R_Events("recovery_fun") : r_trace[i].k = r_trace[j].k

\* Two attempts fail, each has its recovery, the third attempt returns.
WitC37_TwoRecoveriesThenSuccess ==
    /\ r_pc = "returned"
    /\ Cardinality(R_Failed) = 2
    /\ Cardinality(R_Events("recovery_fun")) = 2

\* ---------------------------------------------------------------------
\* More claims about ensure_page_verified (checked under SpecVerify)
\* ---------------------------------------------------------------------

\* C32 (as claimed): the controller pauses only between rounds: the pause
\* after failed round k is k seconds, and when the call is over the number
\* of pauses is the number of rounds minus one, so there is none after a
\* round that ends verified and none after the last round.
CexC32_PausesOnlyBetweenRounds ==
    /\ \A k \in 1..Len(v_pauses) : v_pauses[k] = k
    /\ (V_Done /\ v_ret \in {"True", "False"}) =>
          Len(v_pauses) = (IF v_attempt = 0 THEN 0 ELSE v_attempt - 1)

\* ---------------------------------------------------------------------
\* Claims about _try_get_request (checked under SpecGet)
\* ---------------------------------------------------------------------
G_Failed(o) == o.kind = "raise" \/ o.status # 200
G_MaxGets == IF g_retries >= 1 THEN g_retries ELSE 1
G_LastGet == g_trace[CHOOSE i \in G_Events("get") :
                        \A j \in G_Events("get") : j <= i]

ThmC38_FetcherNeverRaises ==
    /\ f_pc \in {"goto", "early", "verify", "pattern", "age", "pdf", "nav", "done"}
    /\ F_Done => f_result.kind \in {"FetchResult", "None"}

\* An exception reached the handler around the whole body of the
\* doj_file_helper.py fetcher, and the call returned None.
WitC38_OuterHandlerReturnsNone ==
    /\ F_Done /\ f_variant = "helper"
    /\ f_result.kind = "None" /\ f_result.via = "error"

\* C40 (as claimed): called with the dataset's shared session, the fetcher
\* has closed the page it opened whenever it returns: on success, on a
\* verification failure, on a skip, on a fetch failure and when its outer
\* handler caught an exception.
CexC40_PageClosedOnEveryPath ==
    (F_Done /\ f_variant = "helper") => f_result.closed

\* ---------------------------------------------------------------------
\* More claims about navigate_to_next_page (checked under SpecWalk)
\* ---------------------------------------------------------------------

\* C33 (as claimed): the next-page control has an href, the direct
\* navigation to it raises, the fallback click and its network-idle wait
\* succeed (no response, so no block status, was seen): the walker returns
\* True.
CexC33_ClickFallbackReturnsTrue ==
    (/\ N_Done /\ n_href = "url"
     /\ n_navs = <<-1>> /\ n_fallback = "ok") => n_ret = "True"

\* C34 (as claimed): during an advance ensure_page_verified is entered only
\* after a navigation response with a block status; an advance by click on
\* a control without href that met no failure returns True with the
\* controller never run and no page.goto made.
CexC34_ControllerOnlyAfterBlock ==
    /\ n_pc = "verify" =>
          \E i \in 1..Len(n_navs) : is_blocked(n_navs[i])
    /\ (N_Done /\ n_href = "none" /\ n_ret = "True") =>
          n_ctl = 0 /\ n_navs = <<>>

\* ---------------------------------------------------------------------
\* More claims about pull_doj_dataset_headless (checked under SpecCrawl)
\* ---------------------------------------------------------------------

\* C35 (as claimed): with per_page_limit = L the crawler calls the File
\* Fetcher at most L times for any one page, whatever each fetch and each
\* save of its content comes to.
CexC35_AtMostLimitFetchesPerPage ==
    d_pc = "item" => d_log.on_page <= d_config.per_page_limit

PaginationStops == {"blocked", "advance_failed"}

\* C36: when the pagination of a dataset stops because the next page is
\* still blocked after the retry, or because the advance failed, the
\* dataset's session is closed and the run goes on: the next dataset of the
\* list, if there is one, is opened, and the run is over only if there is
\* none.
ThmC36_PaginationStopEndsOneDataset ==
    \A ds \in Datasets :
        d_exit[ds] \in PaginationStops =>
            /\ d_session[ds] = "closed"
            /\ IF ds < d_config.n THEN d_idx > ds
               ELSE d_pc = "done"

\* The first dataset's pagination stopped on a page still blocked after the
\* retry; the items of the second dataset are being visited.
WitC36_SecondDatasetCrawledAfterBlock ==
    /\ d_exit[1] = "blocked" /\ d_session[1] = "closed"
    /\ d_idx = 2 /\ d_pc = "item" /\ d_items > 0

====
